---- MODULE Spec2Model ----
(***************************************************************************)
(* A model of DQBFSolver (src/dqbf_solver.py): the ordered decision lists  *)
(* encoded into the counterexample solver, the expansion registry, the     *)
(* counterexample engine, the refinement engine and the CEGAR driver.      *)
(*                                                                         *)
(* The specifications share the state:                                     *)
(*   Spec       the public operations (init_model, set_default_value,      *)
(*              add_rule, get_expansion_variable,                          *)
(*              detect_equivalent_existentials) called in any order on a   *)
(*              constructed solver;                                        *)
(*   SolveSpec  one run of solve() on a constructed solver; SolveLive is   *)
(*              the same run under weak fairness of its steps;             *)
(*   DetectSpec detect_equivalent_existentials on a catalogue of its own;  *)
(*   HenkinSpec the first iterations of solve() on the Henkin instance;    *)
(*   MainSpec   main(): the run of solve() inside its try block, the       *)
(*              exceptions the environment may raise, and the exit code;   *)
(*   VerboseSpec the same run without the environment's exceptions, also   *)
(*              on the instances that have no existential.                 *)
(***************************************************************************)
EXTENDS Integers, Sequences, FiniteSets, TLC

\* ------------------------------------------------------------------ bounds
\* Init draws the instance from Catalogue[1..NumInstances].
NumInstances == 42
\* Spec: at most MaxRules rules are added by add_rule / get_expansion_variable.
MaxRules == 2
\* Spec: premises and assignments handed to the operations have at most
\* MaxLen literals.
MaxLen == 2
\* Spec, DetectSpec: detect_equivalent_existentials is called as long as it
\* has handed out at most MaxActivations activation variables.
MaxActivations == 3

\* HenkinSpec follows solve() up to the counterexample of this iteration.
MaxIterations == 5

\* ---------------------------------------------------------------- literals
Abs(l) == IF l < 0 THEN -l ELSE l

Range(s) == {s[i] : i \in DOMAIN s}

None == 0   \* Python's None for an optional variable id (ids are >= 1)

\* sorted(literals, key=abs): Python's sort is stable, so literals of equal
\* magnitude keep their relative order.  Insertion of x behind every element
\* whose magnitude is <= |x|.
RECURSIVE InsertByAbs(_, _)
InsertByAbs(s, x) ==
  IF s = <<>> THEN <<x>>
  ELSE IF Abs(s[Len(s)]) <= Abs(x) THEN Append(s, x)
  ELSE Append(InsertByAbs(SubSeq(s, 1, Len(s) - 1), x), s[Len(s)])

unsorted(s) == s

RECURSIVE SortedByAbs(_)
SortedByAbs(s) ==
  IF s = <<>> THEN <<>>
  ELSE InsertByAbs(SortedByAbs(SubSeq(s, 1, Len(s) - 1)), s[Len(s)])

\* [x for x in s if keep(x)]
RECURSIVE Filter(_, _)
Filter(s, keep) ==
  IF s = <<>> THEN <<>>
  ELSE IF s[1] \in keep THEN <<s[1]>> \o Filter(Tail(s), keep)
  ELSE Filter(Tail(s), keep)

\* a model lists one literal per variable in ascending variable order
RECURSIVE ByVariable(_)
ByVariable(S) ==
  IF S = {} THEN <<>>
  ELSE LET m == CHOOSE x \in S : \A y \in S : Abs(x) <= Abs(y)
       IN <<m>> \o ByVariable(S \ {m})

\* ------------------------------------------------------------- SAT service
\* The CDCL engine is a black box with the contract: solve(assumptions) is
\* SAT iff some total assignment satisfies every clause and every
\* assumption; get_model() is any such assignment; get_core() is any subset
\* of the assumptions that is unsatisfiable with the clauses.  Sat decides
\* satisfiability by unit propagation and branching on the lowest variable.
ClauseSet(clauses) == {Range(clauses[i]) : i \in DOMAIN clauses}

Conflict == {0}

Consistent(asg) == \A l \in asg : -l \notin asg

RECURSIVE UnitPropagate(_, _)
UnitPropagate(cls, asg) ==
  LET open  == {c \in cls : c \cap asg = {}}
      red   == {{l \in c : -l \notin asg} : c \in open}
      units == UNION {r \in red : Cardinality(r) = 1}
  IN IF {} \in red THEN Conflict
     ELSE IF units = {} THEN asg
     ELSE IF ~Consistent(units) THEN Conflict
     ELSE UnitPropagate(open, asg \cup units)

RECURSIVE DPLL(_, _)
DPLL(cls, asg) ==
  LET a == UnitPropagate(cls, asg)
  IN IF a = Conflict THEN FALSE
     ELSE LET open == {c \in cls : c \cap a = {}}
          IN IF open = {} THEN TRUE
             ELSE LET free == {Abs(l) : l \in UNION open} \ {Abs(l) : l \in a}
                      v    == CHOOSE x \in free : \A y \in free : x <= y
                  IN DPLL(open, a \cup {-v}) \/ DPLL(open, a \cup {v})

\* solver.solve(assumptions=...) on a solver holding `clauses`
Sat(clauses, assumptions) ==
  /\ Consistent(assumptions)
  /\ DPLL(ClauseSet(clauses), assumptions)

\* every total assignment to the variables of V, as a set of literals
Assignments(V) == {{IF v \in T THEN v ELSE -v : v \in V} : T \in SUBSET V}

\* the projections to V of the models solve(assumptions) may return
Models(clauses, assumptions, V) ==
  {m \in Assignments(V) : Sat(clauses, assumptions \cup m)}

\* get_core() after an UNSAT answer may be any subset S of the assumptions
\* that is unsatisfiable with the clauses
IsCore(clauses, S) == ~Sat(clauses, S)

\* --------------------------------------------------------- the instances
\* What the parser hands to the constructor.  Universals have the ids
\* 1..nu, existentials nu+1..nu+ne, the output gate g* is nu+ne+1.  deps[k]
\* is the ordered dependency list of existential nu+k.  body is the set of
\* rows (the set of variables a row makes true) on which the quantifier-free
\* body holds; the matrix is a CNF that defines g* as that function of the
\* universals and existentials: one clause per row.
Row(j, n) == {v \in 1..n : (j \div (2 ^ (v - 1))) % 2 = 1}

\* every body over one universal (id 1) and one existential (id 2), with the
\* existential independent (k < 16) or dependent on the universal
OneByOne(k) ==
  [nu |-> 1, ne |-> 1,
   deps |-> <<IF k >= 16 THEN <<1>> ELSE <<>> >>,
   body |-> {Row(j, 2) : j \in {i \in 0..3 : ((k % 16) \div (2 ^ i)) % 2 = 1}}]

Handmade ==
  << \* forall u1 u2 exists e(u1,u2): e <-> (u1 xor u2)
     [nu |-> 2, ne |-> 1, deps |-> << <<1, 2>> >>,
      body |-> {{}, {1, 3}, {2, 3}, {1, 2}}],
     \* the same body, e depending on u1 only
     [nu |-> 2, ne |-> 1, deps |-> << <<1>> >>,
      body |-> {{}, {1, 3}, {2, 3}, {1, 2}}],
     \* exists e1 e2: ~e1 \/ e2
     [nu |-> 0, ne |-> 2, deps |-> << <<>>, <<>> >>,
      body |-> {{}, {2}, {1, 2}}],
     \* exists e: e /\ ~e
     [nu |-> 0, ne |-> 1, deps |-> << <<>> >>, body |-> {}],
     \* forall u1 u2 exists e(u2,u1): e <-> (u1 /\ u2)
     [nu |-> 2, ne |-> 1, deps |-> << <<2, 1>> >>,
      body |-> {{}, {1}, {2}, {1, 2, 3}}],
     \* forall u exists e1(u) e2(): (e1 <-> u) /\ e2
     [nu |-> 1, ne |-> 2, deps |-> << <<1>>, <<>> >>,
      body |-> {{3}, {1, 2, 3}}],
     \* forall u exists e1() e2(): (e1 <-> u) /\ e2
     [nu |-> 1, ne |-> 2, deps |-> << <<>>, <<>> >>,
      body |-> {{3}, {1, 2, 3}}],
     \* forall u exists e1(u) e2(): (e1 \/ e2) <-> u
     [nu |-> 1, ne |-> 2, deps |-> << <<1>>, <<>> >>,
      body |-> {{}, {1, 2}, {1, 3}, {1, 2, 3}}],
     \* forall u exists e1(u) e2(u): (e1 xor e2) <-> u
     [nu |-> 1, ne |-> 2, deps |-> << <<1>>, <<1>> >>,
      body |-> {{}, {2, 3}, {1, 2}, {1, 3}}],
     \* forall u1 u2 exists e1(u1) e2(u2): (e1 xor e2) <-> (u1 xor u2)
     [nu |-> 2, ne |-> 2, deps |-> << <<1>>, <<2>> >>,
      body |-> {{}, {3, 4}, {1, 3}, {1, 4}, {2, 3}, {2, 4}, {1, 2},
                {1, 2, 3, 4}}],
     \* forall u1 u2 exists e(u1): e <-> (u1 /\ u2)
     [nu |-> 2, ne |-> 1, deps |-> << <<1>> >>,
      body |-> {{}, {1}, {2}, {1, 2, 3}}] >>

\* the bodies over one universal and one existential come first
Catalogue(i) == IF i <= 32 THEN OneByOne(i - 1) ELSE Handmade[i - 32]

\* the clause of row r: falsified exactly by r with g* of the wrong value
RowClause(I, r) ==
  [v \in 1..(I.nu + I.ne + 1) |->
     IF v = I.nu + I.ne + 1
       THEN (IF r \in I.body THEN v ELSE -v)
       ELSE (IF v \in r THEN -v ELSE v)]

RECURSIVE RowClauses(_, _)
RowClauses(I, j) ==
  IF j < 0 THEN <<>>
  ELSE Append(RowClauses(I, j - 1), RowClause(I, Row(j, I.nu + I.ne)))

MatrixOf(I) == RowClauses(I, 2 ^ (I.nu + I.ne) - 1)

\* the permutations of 1..n shifted by off: list(set(...)) of the constructor
\* iterates the existential names in an order the caller does not control
Orders(off, n) ==
  {p \in [1..n -> (off + 1)..(off + n)] :
     \A i, j \in 1..n : i # j => p[i] # p[j]}

\* ---------------------------------------------------------------- state
VARIABLES
  inst,                          \* the parser output handed to the constructor
  existential_var_ids,           \* self.existential_var_ids (a list)
  counter,                       \* self.counter: the last id handed out
  id_to_name,                    \* self.id_to_name
  value_vars,                    \* self.value_vars: e -> signed value id
  no_rule_fired_vars,            \* self.no_rule_fired_vars: e -> id
  rule_fire_vars,                \* self.rule_fire_vars: e -> id
  all_rule_fire_vars,            \* diagnostic logs (lists of tuples)
  all_no_rule_fired_vars,
  all_value_vars,
  permanent_assumptions,         \* self.permanent_assumptions (a list)
  expansion_vars,                \* self.expansion_vars: <<e, tuple>> -> id
  expansion_vars_set,            \* self.expansion_vars_set
  expansion_variable_assignment, \* self.expansion_variable_assignment
  counterexample_solver,         \* the clauses added to the solver, in order
  expansion_solver,
  last_counterexample_existentials,
  last_counterexample_universals,
  pc,                            \* where solve() stands
  iteration,                     \* solve()'s local iteration
  counterexample,                \* solve()'s local (existential_core, universal_assignment)
  called,                        \* the last public operation called, its arguments and outcome
  rule_log,                      \* history: the arguments of every add_rule call
  seen                           \* history: the counterexamples of earlier iterations

vars ==
  <<inst, existential_var_ids, counter, id_to_name, value_vars,
    no_rule_fired_vars, rule_fire_vars, all_rule_fire_vars,
    all_no_rule_fired_vars, all_value_vars, permanent_assumptions,
    expansion_vars, expansion_vars_set, expansion_variable_assignment,
    counterexample_solver, expansion_solver, last_counterexample_existentials,
    last_counterexample_universals, pc, iteration, counterexample, called,
    rule_log, seen>>

\* the derived tables of the constructor
universal_var_ids == 1..inst.nu
output_gate_id == inst.nu + inst.ne + 1
dependencies_by_id_list(e) == inst.deps[e - inst.nu]
dependencies_by_id(e) == Range(dependencies_by_id_list(e))
IsExistential(e) == e \in Range(existential_var_ids)

\* the fields the operations read and write, as one value
Self ==
  [counter |-> counter, id_to_name |-> id_to_name, value_vars |-> value_vars,
   no_rule_fired_vars |-> no_rule_fired_vars,
   rule_fire_vars |-> rule_fire_vars,
   all_rule_fire_vars |-> all_rule_fire_vars,
   all_no_rule_fired_vars |-> all_no_rule_fired_vars,
   all_value_vars |-> all_value_vars,
   permanent_assumptions |-> permanent_assumptions,
   expansion_vars |-> expansion_vars,
   expansion_vars_set |-> expansion_vars_set,
   counterexample_solver |-> counterexample_solver,
   expansion_solver |-> expansion_solver,
   rule_log |-> rule_log]

\* sequencing: F applied to the value of v, computed once
Then(v, F(_)) == CHOOSE r \in {F(x) : x \in {v}} : TRUE

Commit(after) ==
  \E s \in {after} :
  /\ counter' = s.counter
  /\ id_to_name' = s.id_to_name
  /\ value_vars' = s.value_vars
  /\ no_rule_fired_vars' = s.no_rule_fired_vars
  /\ rule_fire_vars' = s.rule_fire_vars
  /\ all_rule_fire_vars' = s.all_rule_fire_vars
  /\ all_no_rule_fired_vars' = s.all_no_rule_fired_vars
  /\ all_value_vars' = s.all_value_vars
  /\ permanent_assumptions' = s.permanent_assumptions
  /\ expansion_vars' = s.expansion_vars
  /\ expansion_vars_set' = s.expansion_vars_set
  /\ counterexample_solver' = s.counterexample_solver
  /\ expansion_solver' = s.expansion_solver
  /\ rule_log' = s.rule_log

\* a dict with one more (or one replaced) entry
Put(f, k, v) == [x \in DOMAIN f \cup {k} |-> IF x = k THEN v ELSE f[x]]

\* names are strings in the code; here the parts a name is formatted from.
\* kind "var" is a name of the parser, idx its id.
Name(kind, e, idx, lits) == [kind |-> kind, e |-> e, idx |-> idx, lits |-> lits]

\* _format_literals(literals): the literals sorted by magnitude, each rendered
\* by its name; the rendering is injective, the sorted list stands for it
format_literals(literals) == SortedByAbs(literals)

\* what an operation hands back: the state it leaves, its return value and
\* the exception it raised ("" when it returned)
Raised_after_allocating(s, e) ==
  [st |-> [s EXCEPT !.counter = s.counter + 1], ret |-> None, exc |-> e,
   aux |-> <<>>]

\* aux is history: what the operation did on the way (the pair queries of
\* detect_equivalent_existentials), which no field keeps
Returned(s, v) == [st |-> s, ret |-> v, exc |-> "", aux |-> <<>>]
Raised(s, e) == [st |-> s, ret |-> None, exc |-> e, aux |-> <<>>]

\* self.id_to_name.get(existential_var_id, f"var{existential_var_id}")
ExistName(s, e) ==
  IF e \in DOMAIN s.id_to_name THEN s.id_to_name[e] ELSE Name("var", e, e, <<>>)

\* add_clause for each clause, in order
AddClauses_nothing(s, clauses) == s

AddClauses(s, clauses) ==
  Then(s, LAMBDA v :
    [v EXCEPT !.counterexample_solver = v.counterexample_solver \o clauses])

\* ------------------------------------------------- decision-list encoder
\* no_rule_fired_0 holds, and
\* no_rule_fired_0 /\ fires_var_1 => (e <=> value_var_1)
initial_clauses_one_way(e, value_var_1, no_rule_fired_0, fires_var_1) ==
  << <<no_rule_fired_0>>,
     <<-no_rule_fired_0, -fires_var_1, -e, value_var_1>> >>

initial_clauses(e, value_var_1, no_rule_fired_0, fires_var_1) ==
  << <<no_rule_fired_0>>,
     <<-no_rule_fired_0, -fires_var_1, -e, value_var_1>>,
     <<-no_rule_fired_0, -fires_var_1, e, -value_var_1>> >>

\* "Check if already initialized": if existential_var_id in self.value_vars
never_initialised(s, existential_var_id) == FALSE

already_initialised(s, existential_var_id) ==
  existential_var_id \in DOMAIN s.value_vars

init_model(s, existential_var_id) ==
  IF ~IsExistential(existential_var_id) THEN Raised(s, "ValueError")
  ELSE IF already_initialised(s, existential_var_id) THEN Returned(s, None)
  ELSE
    LET e == existential_var_id
        value_var_1     == s.counter + 1
        no_rule_fired_0 == s.counter + 2
        fires_var_1     == s.counter + 3
        s1 == [s EXCEPT
                 !.counter = s.counter + 3,
                 !.value_vars = Put(s.value_vars, e, value_var_1),
                 !.no_rule_fired_vars = Put(s.no_rule_fired_vars, e, no_rule_fired_0),
                 !.rule_fire_vars = Put(s.rule_fire_vars, e, fires_var_1),
                 !.id_to_name =
                    Put(Put(Put(s.id_to_name,
                        value_var_1, Name("value", e, 1, <<>>)),
                        no_rule_fired_0, Name("nofired", e, 0, <<>>)),
                        fires_var_1, Name("fire", e, 1, <<>>)),
                 !.all_value_vars = Append(s.all_value_vars,
                    [e |-> e, id |-> value_var_1, idx |-> 1]),
                 !.all_no_rule_fired_vars = Append(s.all_no_rule_fired_vars,
                    [e |-> e, id |-> no_rule_fired_0, idx |-> 0]),
                 !.all_rule_fire_vars = Append(s.all_rule_fire_vars,
                    [e |-> e, id |-> fires_var_1, default |-> TRUE,
                     premise |-> <<>>])]
    IN Returned(
         AddClauses(s1, initial_clauses(e, value_var_1, no_rule_fired_0,
                                        fires_var_1)),
         None)

set_default_value(s, existential_var_id, value) ==
  IF existential_var_id \notin DOMAIN s.value_vars THEN Raised(s, "ValueError")
  ELSE
    LET current_value_var == s.value_vars[existential_var_id]
    IN Returned(
         [s EXCEPT !.value_vars[existential_var_id] =
            IF value THEN current_value_var ELSE -current_value_var],
         None)

\* int(current_fire_name.split("_fire_")[-1]) + 1, and 2 when the name does
\* not end in a number
RuleNum(s, fire) ==
  IF fire \in DOMAIN s.id_to_name /\ s.id_to_name[fire].kind = "fire"
    THEN s.id_to_name[fire].idx + 1
    ELSE 2

\* the first entry of all_rule_fire_vars for (e, fire) gets the premise name
NamePremise(log, e, fire, premise_name) ==
  LET hits == {i \in DOMAIN log : log[i].e = e /\ log[i].id = fire}
  IN IF hits = {} THEN log
     ELSE LET i == CHOOSE x \in hits : \A y \in hits : x <= y
          IN [log EXCEPT ![i] = [e |-> e, id |-> fire, default |-> FALSE,
                                 premise |-> premise_name]]

\* "Define this_rule_fired": this_rule_fired <=> premise
define_fire_forward_only(this_rule_fired, premise) ==
  [i \in DOMAIN premise |-> <<-this_rule_fired, premise[i]>>]

define_fire(this_rule_fired, premise) ==
  [i \in DOMAIN premise |-> <<-this_rule_fired, premise[i]>>]
    \o << [i \in DOMAIN premise |-> -premise[i]] \o <<this_rule_fired>> >>

\* "Define next_no_rule_fired":
\* this_no_rule_fired <=> previous_no_rule_fired /\ ~this_rule_fired
define_no_rule_fired(this_no_rule_fired, previous_no_rule_fired, this_rule_fired) ==
  << <<-this_no_rule_fired, previous_no_rule_fired>>,
     <<-this_no_rule_fired, -this_rule_fired>>,
     <<this_no_rule_fired, -previous_no_rule_fired, this_rule_fired>> >>

\* next_rule_fired /\ this_no_rule_fired => (e <=> next_value_var)
select_inverted(next_rule_fired, this_no_rule_fired, e, next_value_var) ==
  << <<-next_rule_fired, -this_no_rule_fired, e, next_value_var>>,
     <<-next_rule_fired, -this_no_rule_fired, -e, -next_value_var>> >>

select(next_rule_fired, this_no_rule_fired, e, next_value_var) ==
  << <<-next_rule_fired, -this_no_rule_fired, -e, next_value_var>>,
     <<-next_rule_fired, -this_no_rule_fired, e, -next_value_var>> >>

\* this_value_var <=> value_var
define_value_one_way(this_value_var, value_var) ==
  << <<-this_value_var, value_var>> >>

define_value(this_value_var, value_var) ==
  << <<-this_value_var, value_var>>, <<this_value_var, -value_var>> >>

\* abs(self.value_vars[existential_var_id])
value_slot_signed(s, existential_var_id) == s.value_vars[existential_var_id]

value_slot(s, existential_var_id) == Abs(s.value_vars[existential_var_id])

add_rule(s, existential_var_id, premise, conclusion, value_var) ==
  IF existential_var_id \notin DOMAIN s.value_vars THEN Raised(s, "ValueError")
  ELSE
    LET e == existential_var_id
        previous_no_rule_fired == s.no_rule_fired_vars[e]
        this_rule_fired        == s.rule_fire_vars[e]
        this_value_var         == value_slot(s, e)
        rule_num               == RuleNum(s, Abs(this_rule_fired))
        next_rule_fired        == s.counter + 1
        this_no_rule_fired     == s.counter + 2
        next_value_var         == s.counter + 3
        premise_name           == format_literals(premise)
        renamed == NamePremise(s.all_rule_fire_vars, e, this_rule_fired,
                               premise_name)
        rule_index == Cardinality({i \in DOMAIN renamed : renamed[i].e = e})
        s1 == [s EXCEPT
                 !.counter = s.counter + 3,
                 !.rule_fire_vars[e] = next_rule_fired,
                 !.no_rule_fired_vars[e] = this_no_rule_fired,
                 !.value_vars[e] = next_value_var,
                 !.id_to_name =
                    Put(Put(Put(Put(s.id_to_name,
                        Abs(this_rule_fired),
                          Name("fire_premise", e, rule_num - 1, premise_name)),
                        next_rule_fired, Name("fire", e, rule_num, <<>>)),
                        this_no_rule_fired, Name("nofired", e, rule_num - 1, <<>>)),
                        next_value_var, Name("value", e, rule_num, <<>>)),
                 !.all_rule_fire_vars = Append(renamed,
                    [e |-> e, id |-> next_rule_fired, default |-> TRUE,
                     premise |-> <<>>]),
                 !.all_no_rule_fired_vars = Append(s.all_no_rule_fired_vars,
                    [e |-> e, id |-> this_no_rule_fired, idx |-> rule_index]),
                 !.all_value_vars = Append(s.all_value_vars,
                    [e |-> e, id |-> next_value_var, idx |-> rule_num]),
                 !.rule_log = Append(s.rule_log,
                    [e |-> e, premise |-> premise, conclusion |-> conclusion,
                     value_var |-> value_var, fire |-> this_rule_fired,
                     value |-> this_value_var])]
        s2 == AddClauses(s1,
                define_fire(this_rule_fired, premise)
                  \o define_no_rule_fired(this_no_rule_fired,
                                          previous_no_rule_fired, this_rule_fired)
                  \o select(next_rule_fired, this_no_rule_fired, e,
                            next_value_var))
    IN IF value_var = None
         THEN Returned(
                [s2 EXCEPT !.permanent_assumptions =
                   Append(s2.permanent_assumptions,
                          IF conclusion THEN this_value_var ELSE -this_value_var)],
                None)
         ELSE Returned(
                AddClauses(s2, define_value(this_value_var, value_var)),
                None)

\* ----------------------------------------------------- expansion registry
\* if key in self.expansion_vars
never_interned(s, key) == FALSE

interned(s, key) == key \in DOMAIN s.expansion_vars

\* not assignment_vars.issubset(dep_set)
always_inside_dependencies(existential_var_id, assignment) == FALSE

outside_dependencies(existential_var_id, assignment) ==
  ~({Abs(l) : l \in Range(assignment)}
      \subseteq dependencies_by_id(existential_var_id))

get_expansion_variable(s, existential_var_id, assignment) ==
  IF ~IsExistential(existential_var_id) THEN Raised(s, "ValueError")
  ELSE IF outside_dependencies(existential_var_id, assignment)
    THEN Raised(s, "ValueError")
  ELSE
    LET assignment_tuple == SortedByAbs(assignment)
        key == <<existential_var_id, assignment_tuple>>
    IN IF interned(s, key)
         THEN Returned(s, s.expansion_vars[key])
         ELSE
           LET expansion_var_id == s.counter + 1
               s1 == [s EXCEPT
                        !.counter = s.counter + 1,
                        !.id_to_name =
                           IF existential_var_id \in DOMAIN s.id_to_name
                             THEN Put(s.id_to_name, expansion_var_id,
                                      Name("exp", existential_var_id, 0,
                                           assignment_tuple))
                             ELSE s.id_to_name,
                        !.expansion_vars =
                           Put(s.expansion_vars, key, expansion_var_id)]
           IN Then(add_rule(s1, existential_var_id, assignment, TRUE,
                            expansion_var_id),
                   LAMBDA r :
                     IF r.exc # "" THEN r
                     ELSE Returned(
                            [r.st EXCEPT !.expansion_vars_set =
                               r.st.expansion_vars_set \cup {expansion_var_id}],
                            expansion_var_id))

\* an Optional[Set[int]]: None, or a set
NoSet == [none |-> TRUE, set |-> {}]
SomeSet(S) == [none |-> FALSE, set |-> S]

\* solve()'s counterexample before the first search
NoCounterexample == [existential_core |-> <<>>, universal_assignment |-> <<>>]

\* ------------------------------------------------------------ constructor
Max(S) == CHOOSE x \in S : \A y \in S : y <= x

\* the ids of name_to_id: the parser numbers the variables and g*
name_to_id_values == 1..output_gate_id

max_id_universals_only == Max({0} \cup universal_var_ids)

\* counter is None: the largest id of name_to_id and of the matrix
max_id ==
  Max({0} \cup name_to_id_values
          \cup {Abs(l) : l \in UNION {Range(c) : c \in Range(MatrixOf(inst))}})

\* the fields right before the loop that initialises the decision lists
Fresh ==
  [counter |-> max_id,
   id_to_name |-> [v \in 1..output_gate_id |-> Name("var", v, v, <<>>)],
   value_vars |-> <<>>, no_rule_fired_vars |-> <<>>, rule_fire_vars |-> <<>>,
   all_rule_fire_vars |-> <<>>, all_no_rule_fired_vars |-> <<>>,
   all_value_vars |-> <<>>, permanent_assumptions |-> <<>>,
   expansion_vars |-> <<>>, expansion_vars_set |-> {},
   counterexample_solver |-> MatrixOf(inst), expansion_solver |-> <<>>,
   rule_log |-> <<>>]

\* for exist_var_id in self.existential_var_ids: self.init_model(exist_var_id)
RECURSIVE InitModels(_, _)
InitModels(s, ids) ==
  IF ids = <<>> THEN s
  ELSE Then(init_model(s, ids[1]).st, LAMBDA next : InitModels(next, Tail(ids)))

ConstructedOn(instances) ==
  /\ inst \in instances
  /\ existential_var_ids \in Orders(inst.nu, inst.ne)
  /\ \E fresh \in {Fresh} : \E s \in {InitModels(fresh, existential_var_ids)} :
        /\ counter = s.counter
        /\ id_to_name = s.id_to_name
        /\ value_vars = s.value_vars
        /\ no_rule_fired_vars = s.no_rule_fired_vars
        /\ rule_fire_vars = s.rule_fire_vars
        /\ all_rule_fire_vars = s.all_rule_fire_vars
        /\ all_no_rule_fired_vars = s.all_no_rule_fired_vars
        /\ all_value_vars = s.all_value_vars
        /\ permanent_assumptions = s.permanent_assumptions
        /\ expansion_vars = s.expansion_vars
        /\ expansion_vars_set = s.expansion_vars_set
        /\ counterexample_solver = s.counterexample_solver
        /\ expansion_solver = s.expansion_solver
        /\ rule_log = s.rule_log
  /\ expansion_variable_assignment = {}
  /\ last_counterexample_existentials = NoSet
  /\ last_counterexample_universals = NoSet
  /\ iteration = 0
  /\ counterexample = NoCounterexample
  /\ seen = <<>>

Constructed == ConstructedOn({Catalogue(i) : i \in 1..NumInstances})

NoCall == [op |-> "", e |-> None, lits |-> <<>>, flag |-> FALSE,
           ret |-> None, exc |-> ""]

\* -------------------------------------------------- counterexample engine
\* step 1 of get_counterexample: the assumptions of the search
assumptions_step1_gate_true ==
  {output_gate_id}
    \cup Range(permanent_assumptions)
    \cup {rule_fire_vars[e] : e \in DOMAIN rule_fire_vars}
    \cup {value_vars[e] : e \in DOMAIN value_vars}
    \cup expansion_variable_assignment

assumptions_step1 ==
  {-output_gate_id}
    \cup Range(permanent_assumptions)
    \cup {rule_fire_vars[e] : e \in DOMAIN rule_fire_vars}
    \cup {value_vars[e] : e \in DOMAIN value_vars}
    \cup expansion_variable_assignment

\* step 2: the models the search may return, restricted to the universal and
\* existential variables
SearchModels ==
  Models(counterexample_solver, assumptions_step1,
         universal_var_ids \cup Range(existential_var_ids))

counterexample_universals_without_abs(model) ==
  ByVariable({l \in model : l \in universal_var_ids})

counterexample_universals(model) ==
  ByVariable({l \in model : Abs(l) \in universal_var_ids})
counterexample_existentials(model) ==
  ByVariable({l \in model : IsExistential(Abs(l))})

\* step 3: the assumptions of the verification query
assumptions_step3_universals_only(model) ==
  Range(counterexample_universals(model)) \cup {output_gate_id}

assumptions_step3(model) ==
  Range(counterexample_universals(model))
    \cup Range(counterexample_existentials(model)) \cup {output_gate_id}

\* result2: the answer of the verification query
result2(model) == Sat(counterexample_solver, assumptions_step3(model))

\* step 4: the existential cores the verification query may yield: the
\* existential literals of any core.  A set X of existential literals of the
\* model is the existential part of some core exactly when X, all universal
\* literals and g* are unsatisfiable together (a superset of a core is a
\* core), so the cores are enumerated by their existential part.  The list
\* keeps the order in which the literals were assumed.
ExistentialCores_empty(model) == {<<>>}

ExistentialCores(model) ==
  LET universals == Range(counterexample_universals(model))
      existentials == Range(counterexample_existentials(model))
  IN {ByVariable(X) : X \in
        {Y \in SUBSET existentials :
           IsCore(counterexample_solver,
                  Y \cup universals \cup {output_gate_id})}}

\* ------------------------------------------------------ refinement engine
\* [lit for lit in universal_literals if abs(lit) in dependencies_by_id[e]]
dependency_assignment_empty(exist_id, universal_literals) == <<>>

dependency_assignment(exist_id, universal_literals) ==
  Filter(universal_literals,
         {l \in Range(universal_literals) :
            Abs(l) \in dependencies_by_id(exist_id)})

AnalyzeLiteral_default_first(s, exist_lit, universal_literals) ==
  LET exist_id == Abs(exist_lit)
      assignment == dependency_assignment(exist_id, universal_literals)
  IN Then(set_default_value(s, exist_id, exist_lit < 0), LAMBDA flipped :
       Then(get_expansion_variable(flipped.st, exist_id, assignment),
            LAMBDA r :
              [st |-> r.st,
               lit |-> IF exist_lit > 0 THEN -r.ret ELSE r.ret]))

AnalyzeLiteral_always_negated(s, exist_lit, universal_literals) ==
  LET exist_id == Abs(exist_lit)
      assignment == dependency_assignment(exist_id, universal_literals)
  IN Then(get_expansion_variable(s, exist_id, assignment), LAMBDA r :
       IF exist_lit > 0
         THEN [st |-> set_default_value(r.st, exist_id, FALSE).st,
               lit |-> -r.ret]
         ELSE [st |-> set_default_value(r.st, exist_id, TRUE).st,
               lit |-> -r.ret])

AnalyzeLiteral_same_sign(s, exist_lit, universal_literals) ==
  LET exist_id == Abs(exist_lit)
      assignment == dependency_assignment(exist_id, universal_literals)
  IN Then(get_expansion_variable(s, exist_id, assignment), LAMBDA r :
       IF exist_lit > 0
         THEN [st |-> set_default_value(r.st, exist_id, FALSE).st,
               lit |-> r.ret]
         ELSE [st |-> set_default_value(r.st, exist_id, TRUE).st,
               lit |-> -r.ret])

\* the loop body of analyze_counterexample for one existential literal
AnalyzeLiteral(s, exist_lit, universal_literals) ==
  LET exist_id == Abs(exist_lit)
      assignment == dependency_assignment(exist_id, universal_literals)
  IN Then(get_expansion_variable(s, exist_id, assignment), LAMBDA r :
       IF exist_lit > 0
         THEN [st |-> set_default_value(r.st, exist_id, FALSE).st,
               lit |-> -r.ret]
         ELSE [st |-> set_default_value(r.st, exist_id, TRUE).st,
               lit |-> r.ret])

\* the loop of analyze_counterexample: the state and the expansion clause
\* after the literals of existential_literals[1..n]
RECURSIVE AnalyzeLoop(_, _, _, _)
AnalyzeLoop(s, existential_literals, universal_literals, n) ==
  IF n = 0 THEN [st |-> s, expansion_clause |-> <<>>]
  ELSE Then(AnalyzeLoop(s, existential_literals, universal_literals, n - 1),
            LAMBDA before :
              Then(AnalyzeLiteral(before.st, existential_literals[n],
                                  universal_literals),
                   LAMBDA step :
                     [st |-> step.st,
                      expansion_clause |->
                        Append(before.expansion_clause, step.lit)]))

analyze_counterexample_no_clause(s, existential_literals, universal_literals) ==
  AnalyzeLoop(s, existential_literals, universal_literals,
              Len(existential_literals)).st

\* the blocking clause is added only when it has a literal
analyze_counterexample_skips_empty(s, existential_literals, universal_literals) ==
  Then(AnalyzeLoop(s, existential_literals, universal_literals,
                   Len(existential_literals)),
       LAMBDA done :
         IF done.expansion_clause = <<>> THEN done.st
         ELSE [done.st EXCEPT !.expansion_solver =
                 Append(done.st.expansion_solver, done.expansion_clause)])

analyze_counterexample(s, existential_literals, universal_literals) ==
  Then(AnalyzeLoop(s, existential_literals, universal_literals,
                   Len(existential_literals)),
       LAMBDA done :
         [done.st EXCEPT !.expansion_solver =
            Append(done.st.expansion_solver, done.expansion_clause)])

\* ---------------------------------------------------- equivalence detector
\* class UnionFind: parent and rank, keyed by the elements
UnionFind(elements) ==
  [parent |-> [x \in Range(elements) |-> x],
   rank |-> [x \in Range(elements) |-> 0]]

RECURSIVE Root(_, _)
Root(parent, x) == IF parent[x] = x THEN x ELSE Root(parent, parent[x])

\* the elements find(x) visits below the root
RECURSIVE PathOf(_, _)
PathOf(parent, x) ==
  IF parent[x] = x THEN {} ELSE {x} \cup PathOf(parent, parent[x])

\* find with path compression: every visited element is hung on the root
find(uf, x) ==
  LET root == Root(uf.parent, x)
      path == PathOf(uf.parent, x)
  IN [uf |-> [uf EXCEPT !.parent = [y \in DOMAIN uf.parent |->
                                      IF y \in path THEN root ELSE uf.parent[y]]],
      root |-> root]

union_nothing(uf, x, y) == uf

\* union by rank
union(uf, x, y) ==
  LET fx == find(uf, x)
      fy == find(fx.uf, y)
      root_x == fx.root
      root_y == fy.root
      u == fy.uf
  IN IF root_x = root_y THEN u
     ELSE IF u.rank[root_x] < u.rank[root_y]
       THEN [u EXCEPT !.parent[root_x] = root_y]
     ELSE IF u.rank[root_x] > u.rank[root_y]
       THEN [u EXCEPT !.parent[root_y] = root_x]
     ELSE [u EXCEPT !.parent[root_y] = root_x,
                    !.rank[root_x] = u.rank[root_x] + 1]

same_set(uf, x, y) ==
  LET fx == find(uf, x)
      fy == find(fx.uf, y)
  IN [uf |-> fy.uf, same |-> fx.root = fy.root]

\* get_classes: root -> the elements below it, in the order of the elements
get_classes(uf, elements) ==
  [root \in {Root(uf.parent, x) : x \in Range(elements)} |->
     Filter(elements, {x \in Range(elements) : Root(uf.parent, x) = root})]

\* by_dep_count[dep_count]: the existentials with that many dependencies, in
\* the order of existential_var_ids
by_dep_count(dep_count) ==
  Filter(existential_var_ids,
         {e \in Range(existential_var_ids) :
            Len(dependencies_by_id_list(e)) = dep_count})

\* for i in range(len(group)): for j in range(i + 1, len(group))
RECURSIVE PairsFrom(_, _, _)
PairsFrom(group, i, j) ==
  IF i > Len(group) THEN <<>>
  ELSE IF j > Len(group) THEN PairsFrom(group, i + 1, i + 2)
  ELSE << <<group[i], group[j]>> >> \o PairsFrom(group, i, j + 1)

\* for dep_count, group in sorted(by_dep_count.items())
RECURSIVE GroupPairs(_)
GroupPairs(dep_counts) ==
  IF dep_counts = {} THEN <<>>
  ELSE LET c == CHOOSE x \in dep_counts : \A y \in dep_counts : x <= y
       IN PairsFrom(by_dep_count(c), 1, 2) \o GroupPairs(dep_counts \ {c})

pair_clauses_one_sided(assumption_variable, var1_id, var2_id, deps1, deps2) ==
  << <<-assumption_variable, var1_id, var2_id>> >>

\* the clauses of one pair, guarded by its activation variable: the zipped
\* dependencies are equal and the two existentials differ
pair_clauses(assumption_variable, var1_id, var2_id, deps1, deps2) ==
  LET n == IF Len(deps1) < Len(deps2) THEN Len(deps1) ELSE Len(deps2)
  IN [k \in 1..(2 * n) |->
        LET i == (k + 1) \div 2
        IN IF k % 2 = 1
             THEN <<-assumption_variable, deps1[i], -deps2[i]>>
             ELSE <<-assumption_variable, -deps1[i], deps2[i]>>]
     \o << <<-assumption_variable, var1_id, var2_id>>,
           <<-assumption_variable, -var1_id, -var2_id>> >>

\* self.counter.increase() inside the pair loop
increase_once(d) == IF d.queries = <<>> THEN d.counter + 1 ELSE d.counter

increase(d) == d.counter + 1

\* the body of the pair loop
DetectPair(d, var1_id, var2_id) ==
  LET asked == same_set(d.uf, var1_id, var2_id)
  IN IF asked.same THEN [d EXCEPT !.uf = asked.uf]
     ELSE
       LET assumption_variable == increase(d)
           clauses == d.detection_solver
                        \o pair_clauses(assumption_variable, var1_id, var2_id,
                                        dependencies_by_id_list(var1_id),
                                        dependencies_by_id_list(var2_id))
           result == Sat(clauses, {assumption_variable, output_gate_id})
       IN [counter |-> assumption_variable,
           detection_solver |-> clauses,
           uf |-> IF ~result THEN union(asked.uf, var1_id, var2_id)
                  ELSE asked.uf,
           queries |-> Append(d.queries,
                              [var1_id |-> var1_id, var2_id |-> var2_id,
                               assumption_variable |-> assumption_variable,
                               result |-> result])]

RECURSIVE DetectLoop(_, _, _)
DetectLoop(d, pairs, n) ==
  IF n = 0 THEN d
  ELSE DetectPair(DetectLoop(d, pairs, n - 1), pairs[n][1], pairs[n][2])

detect_equivalent_existentials(s) ==
  LET pairs == GroupPairs({Len(dependencies_by_id_list(e)) :
                             e \in Range(existential_var_ids)})
      done == DetectLoop([counter |-> s.counter,
                          detection_solver |-> MatrixOf(inst),
                          uf |-> UnionFind(existential_var_ids),
                          queries |-> <<>>],
                         pairs, Len(pairs))
  IN [st |-> [s EXCEPT !.counter = done.counter],
      ret |-> get_classes(done.uf, existential_var_ids),
      exc |-> "",
      aux |-> done.queries]

\* ----------------------------------------------------------- CEGAR driver
\* the variables the expansion solver knows: pysat numbers them 1..max id
ExpansionKnown_last_clause ==
  {x \in expansion_vars_set :
     \E l \in Range(expansion_solver[Len(expansion_solver)]) : Abs(l) = x}

ExpansionKnown ==
  LET ids == {Abs(l) : l \in UNION {Range(c) : c \in Range(expansion_solver)}}
  IN {x \in expansion_vars_set : \E y \in ids : x <= y}

Fingerprint(cx) ==
  [existentials |-> Range(cx.existential_core),
   universals |-> Range(cx.universal_assignment)]

\* get_counterexample() and the check against the last counterexample
Search ==
  /\ pc = "search"
  /\ iteration' = iteration + 1
  /\ IF ~Sat(counterexample_solver, assumptions_step1)
       THEN /\ pc' = "SAT"
            /\ UNCHANGED <<counterexample, seen, last_counterexample_existentials,
                           last_counterexample_universals>>
       ELSE \E model \in SearchModels :
              IF result2(model)
                THEN /\ pc' = "AssertionError"
                     /\ UNCHANGED <<counterexample, seen,
                                    last_counterexample_existentials,
                                    last_counterexample_universals>>
                ELSE \E existential_core \in ExistentialCores(model) :
                       LET cx == [existential_core |-> existential_core,
                                  universal_assignment |->
                                    counterexample_universals(model)]
                       IN /\ counterexample' = cx
                          /\ seen' = Append(seen, Fingerprint(cx))
                          /\ IF /\ ~last_counterexample_existentials.none
                                /\ ~last_counterexample_universals.none
                                /\ Range(cx.existential_core)
                                     = last_counterexample_existentials.set
                                /\ Range(cx.universal_assignment)
                                     = last_counterexample_universals.set
                               THEN /\ pc' = "exit"
                                    /\ UNCHANGED <<last_counterexample_existentials,
                                                   last_counterexample_universals>>
                               ELSE /\ pc' = "analyze"
                                    /\ last_counterexample_existentials'
                                         = SomeSet(Range(cx.existential_core))
                                    /\ last_counterexample_universals'
                                         = SomeSet(Range(cx.universal_assignment))
  /\ UNCHANGED <<inst, existential_var_ids, counter, id_to_name, value_vars,
                 no_rule_fired_vars, rule_fire_vars, all_rule_fire_vars,
                 all_no_rule_fired_vars, all_value_vars, permanent_assumptions,
                 expansion_vars, expansion_vars_set,
                 expansion_variable_assignment, counterexample_solver,
                 expansion_solver, rule_log, called>>

Analyze ==
  /\ pc = "analyze"
  /\ Commit(analyze_counterexample(Self, counterexample.existential_core,
                                   counterexample.universal_assignment))
  /\ pc' = "expand"
  /\ UNCHANGED <<inst, existential_var_ids, expansion_variable_assignment,
                 last_counterexample_existentials,
                 last_counterexample_universals, iteration, counterexample,
                 seen, called>>

Expand_keeps_assignment ==
  /\ pc = "expand"
  /\ pc' = IF Sat(expansion_solver, {}) THEN "search" ELSE "UNSAT"
  /\ UNCHANGED <<inst, existential_var_ids, counter, id_to_name, value_vars,
                 no_rule_fired_vars, rule_fire_vars, all_rule_fire_vars,
                 all_no_rule_fired_vars, all_value_vars, permanent_assumptions,
                 expansion_vars, expansion_vars_set,
                 expansion_variable_assignment, counterexample_solver,
                 expansion_solver, last_counterexample_existentials,
                 last_counterexample_universals, iteration, counterexample,
                 rule_log, seen, called>>

\* self.expansion_solver.solve() and the projection of its model
Expand ==
  /\ pc = "expand"
  /\ LET models == Models(expansion_solver, {}, ExpansionKnown)
     IN IF models = {}
          THEN /\ pc' = "UNSAT"
               /\ UNCHANGED expansion_variable_assignment
          ELSE /\ pc' = "search"
               /\ expansion_variable_assignment' \in models
  /\ UNCHANGED <<inst, existential_var_ids, counter, id_to_name, value_vars,
                 no_rule_fired_vars, rule_fire_vars, all_rule_fire_vars,
                 all_no_rule_fired_vars, all_value_vars, permanent_assumptions,
                 expansion_vars, expansion_vars_set, counterexample_solver,
                 expansion_solver, last_counterexample_existentials,
                 last_counterexample_universals, iteration, counterexample,
                 rule_log, seen, called>>

SolveInit ==
  /\ Constructed
  /\ pc = "search"
  /\ called = NoCall

SolveNext == Search \/ Analyze \/ Expand

SolveSpec == SolveInit /\ [][SolveNext]_vars

\* solve() is a sequential loop: while it has a next statement it runs it.
\* A step of SolveNext is enabled exactly when pc is one of the loop's
\* statements, and every such step moves pc.
LoopStep ==
  /\ pc \in {"search", "analyze", "expand"}
  /\ pc' \in {"search", "analyze", "expand", "SAT", "UNSAT", "exit",
              "AssertionError"}
  /\ pc' # pc

SolveLive == SolveSpec /\ WF_pc(LoopStep)

\* -------------------------------------------------------- public operations
\* A client holds a constructed solver and calls its operations one after the
\* other.  A call runs to completion (pc "returned", with what it was given,
\* what it handed back and the fields as they were before it in called), then
\* the client goes on (pc "idle").
ApiCatalogue == {Handmade[1], Handmade[3], Handmade[6]}

Literals(V) == V \cup {-v : v \in V}
Lists(S, n) == UNION {[1..k -> S] : k \in 0..n}

\* the ids a client passes: the existentials and one id that is none (an id
\* that is no existential is refused before any other argument is read, so
\* it is passed with one choice of the other arguments)
Ids == Range(existential_var_ids) \cup {output_gate_id}
ListsFor(e) ==
  IF IsExistential(e) THEN Lists(Literals(universal_var_ids), MaxLen)
  ELSE {<<>>}
FlagsFor(e) == IF IsExistential(e) THEN BOOLEAN ELSE {FALSE}

\* the activation variables handed out so far: every other id comes with an
\* initialised existential, a rule or an expansion variable
ActivationIds(s) ==
  s.counter - max_id - 3 * Len(existential_var_ids) - 3 * Len(s.rule_log)
    - Cardinality(s.expansion_vars_set)

Call(op, e, lits, flag, result) ==
  /\ pc = "idle"
  /\ \E r \in {result} :
       /\ Len(r.st.rule_log) <= MaxRules
       /\ ActivationIds(r.st) <= MaxActivations
       /\ Commit(r.st)
       /\ called' = [op |-> op, e |-> e, lits |-> lits, flag |-> flag,
                     ret |-> r.ret, exc |-> r.exc, aux |-> r.aux,
                     before |-> Self]
       /\ pc' = "returned"
       /\ UNCHANGED <<inst, existential_var_ids, expansion_variable_assignment,
                      last_counterexample_existentials,
                      last_counterexample_universals, iteration, counterexample,
                      seen>>

CallInitModel ==
  \E e \in Ids : Call("init_model", e, <<>>, FALSE, init_model(Self, e))

CallSetDefaultValue ==
  \E e \in Ids : \E value \in FlagsFor(e) :
    Call("set_default_value", e, <<>>, value,
         set_default_value(Self, e, value))

CallAddRule ==
  \E e \in Ids : \E premise \in ListsFor(e) : \E conclusion \in FlagsFor(e) :
    Call("add_rule", e, premise, conclusion,
         add_rule(Self, e, premise, conclusion, None))

CallGetExpansionVariable ==
  \E e \in Ids : \E assignment \in ListsFor(e) :
    Call("get_expansion_variable", e, assignment, FALSE,
         get_expansion_variable(Self, e, assignment))

CallDetectEquivalentExistentials ==
  Call("detect_equivalent_existentials", None, <<>>, FALSE,
       detect_equivalent_existentials(Self))

Return ==
  /\ pc = "returned"
  /\ pc' = "idle"
  /\ called' = NoCall
  /\ UNCHANGED <<inst, existential_var_ids, counter, id_to_name, value_vars,
                 no_rule_fired_vars, rule_fire_vars, all_rule_fire_vars,
                 all_no_rule_fired_vars, all_value_vars, permanent_assumptions,
                 expansion_vars, expansion_vars_set,
                 expansion_variable_assignment, counterexample_solver,
                 expansion_solver, last_counterexample_existentials,
                 last_counterexample_universals, iteration, counterexample,
                 rule_log, seen>>

Init ==
  /\ Constructed
  /\ inst \in ApiCatalogue
  /\ pc = "idle"
  /\ called = NoCall

Next ==
  \/ CallInitModel
  \/ CallSetDefaultValue
  \/ CallAddRule
  \/ CallGetExpansionVariable
  \/ CallDetectEquivalentExistentials
  \/ Return

Spec == Init /\ [][Next]_vars

\* --------------------------------------------- the detector on its own
\* every body over three existentials without dependencies
ZeroByThree(k) ==
  [nu |-> 0, ne |-> 3, deps |-> << <<>>, <<>>, <<>> >>,
   body |-> {Row(j, 3) : j \in {i \in 0..7 : (k \div (2 ^ i)) % 2 = 1}}]

\* every body over one universal (id 1) and two existentials (ids 2, 3)
OneByTwo(k, deps1, deps2) ==
  [nu |-> 1, ne |-> 2, deps |-> <<deps1, deps2>>,
   body |-> {Row(j, 3) : j \in {i \in 0..7 : (k \div (2 ^ i)) % 2 = 1}}]

TwoByTwo ==
  { \* e1(u1), e2(u2): (e1 <-> u1) /\ (e2 <-> u2) /\ (e1 \/ e2)
    [nu |-> 2, ne |-> 2, deps |-> << <<1>>, <<2>> >>,
     body |-> {{1, 3}, {2, 4}, {1, 2, 3, 4}}],
    \* e1(u1, u2), e2(u2, u1): (e1 <-> u1) /\ (e2 <-> u2)
    [nu |-> 2, ne |-> 2, deps |-> << <<1, 2>>, <<2, 1>> >>,
     body |-> {{}, {1, 3}, {2, 4}, {1, 2, 3, 4}}],
    \* e1(u1, u2), e2(u1, u2): e1 <-> e2
    [nu |-> 2, ne |-> 2, deps |-> << <<1, 2>>, <<1, 2>> >>,
     body |-> {r \in SUBSET (1..4) : (3 \in r) = (4 \in r)}],
    Handmade[10] }

DetectCatalogue ==
  {ZeroByThree(k) : k \in 0..255}
    \cup {OneByTwo(k, d[1], d[2]) :
            k \in 0..255, d \in {<<>>, <<1>>} \X {<<>>, <<1>>}}
    \cup TwoByTwo

DetectInit ==
  /\ ConstructedOn(DetectCatalogue)
  /\ pc = "idle"
  /\ called = NoCall

DetectNext == CallDetectEquivalentExistentials \/ Return

DetectSpec == DetectInit /\ [][DetectNext]_vars

\* ------------------------------------------------- the meaning of a DQBF
\* the row of a total assignment to the universals and existentials
RowOf(literals) == {l \in literals : l > 0}

\* the matrix forces g* true under a total assignment
GateTrue(literals) ==
  /\ ~Sat(MatrixOf(inst), literals \cup {-output_gate_id})
  /\ Sat(MatrixOf(inst), literals \cup {output_gate_id})

\* the restriction of a universal assignment to the dependencies of e
Restrict(u, e) == {l \in u : Abs(l) \in dependencies_by_id(e)}

\* a family of functions f_e : {0,1}^D(e) -> {0,1}
WellTyped(F) ==
  \A e \in DOMAIN F : DOMAIN F[e] = Assignments(dependencies_by_id(e))

\* the existential literals a family yields under the universal assignment u
FamilyValues(F, u) ==
  {IF F[e][Restrict(u, e)] THEN e ELSE -e : e \in DOMAIN F}

\* the family makes the body true under every universal assignment
Winning(F) ==
  \A u \in Assignments(universal_var_ids) :
    RowOf(u \cup FamilyValues(F, u)) \in inst.body

Families ==
  {F \in [inst.nu + 1 .. inst.nu + inst.ne ->
            UNION {[Assignments(dependencies_by_id(e)) -> BOOLEAN] :
                     e \in inst.nu + 1 .. inst.nu + inst.ne}] : WellTyped(F)}

\* the candidate function of e in force: its decision list evaluated
\* first-match under the universal assignment u, a rule's value being the
\* last expansion assignment of its expansion variable, the trailing default
\* the sign of value(e)
CandidateValue(e, u) ==
  LET firing == {k \in DOMAIN expansion_vars :
                   k[1] = e /\ Range(k[2]) \subseteq u}
  IN IF firing = {} THEN value_vars[e] > 0
     ELSE LET first == CHOOSE k \in firing :
                         \A j \in firing : expansion_vars[k] <= expansion_vars[j]
          IN expansion_vars[first] \in expansion_variable_assignment

CandidateValues(u) ==
  {IF CandidateValue(e, u) THEN e ELSE -e : e \in Range(existential_var_ids)}

\* ------------------------------------------------------------- the claims

\* C1: when solve() returns SAT, the candidate functions in force (decision
\* lists evaluated first-match with the last expansion assignment and the
\* trailing defaults) make g* true under every total universal assignment,
\* and the value of each existential depends only on its dependencies.
C1_SatIsSound ==
  pc = "SAT" =>
    /\ \A u \in Assignments(universal_var_ids) :
         GateTrue(u \cup CandidateValues(u))
    /\ \A e \in Range(existential_var_ids) :
         \A u, w \in Assignments(universal_var_ids) :
           Restrict(u, e) = Restrict(w, e)
             => CandidateValue(e, u) = CandidateValue(e, w)

C1_Witness ==
  /\ pc = "SAT"
  /\ inst.ne = 2
  /\ Cardinality(expansion_vars_set) >= 3
  /\ \E e \in Range(existential_var_ids) :
       \E u, w \in Assignments(universal_var_ids) :
         CandidateValue(e, u) # CandidateValue(e, w)

\* C2: when solve() returns UNSAT no family of functions over the
\* dependencies makes g* true under every universal assignment; and every
\* blocking clause in the expansion solver is satisfied by every winning
\* family read as an assignment to the expansion variables.
FamilySatisfies(F, clause) ==
  \E i \in DOMAIN clause :
    \E k \in DOMAIN expansion_vars :
      /\ expansion_vars[k] = Abs(clause[i])
      /\ F[k[1]][Range(k[2])] = (clause[i] > 0)

C2_UnsatIsSound ==
  /\ pc = "UNSAT" => ~(\E F \in Families : Winning(F))
  /\ pc = "expand" =>
       \A F \in Families :
         Winning(F) => FamilySatisfies(F, expansion_solver[Len(expansion_solver)])

C2_Witness ==
  /\ pc = "UNSAT"
  /\ inst.nu >= 1
  /\ inst.ne = 2
  /\ Len(expansion_solver) >= 3

\* C3: the loop of solve() eventually returns SAT or UNSAT.
C3_Terminates == <>(pc \in {"SAT", "UNSAT"})

C3_Witness ==
  /\ pc \in {"SAT", "UNSAT"}
  /\ iteration >= 4

\* C6: no two iterations of one run produce the same counterexample (the
\* same existential core with the same universal assignment), and the stall
\* abort is never reached.
C6_NoRepeat ==
  /\ \A i, j \in DOMAIN seen : i # j => seen[i] # seen[j]
  /\ pc # "exit"

C6_Witness ==
  \E i, j \in DOMAIN seen :
    /\ i < j
    /\ seen[i].universals = seen[j].universals
    /\ seen[i].existentials # seen[j].existentials
    /\ Cardinality(seen[i].existentials) = 2

\* C7: the verification query of get_counterexample is never satisfiable.
C7_VerificationUnsat == pc # "AssertionError"

C7_Witness ==
  /\ pc = "analyze"
  /\ iteration >= 3
  /\ Cardinality(expansion_vars_set) >= 2

\* ------------------------------------------- claims on the public operations
\* the solver's clauses, with the assumptions A, force the literal l
Forces(A, l) ==
  /\ Sat(counterexample_solver, A \cup {l})
  /\ ~Sat(counterexample_solver, A \cup {-l})

\* the rules of e in the order they were added
RulesOf(e) == {i \in DOMAIN rule_log : rule_log[i].e = e}

\* the rules of e whose premise is satisfied by the universal assignment u
Firing(e, u) == {i \in RulesOf(e) : Range(rule_log[i].premise) \subseteq u}

FirstMatch(e, u) ==
  LET A == {rule_fire_vars[e], value_vars[e]}
             \cup Range(permanent_assumptions) \cup u
      firing == Firing(e, u)
  IN IF firing = {}
       THEN Forces(A, IF value_vars[e] > 0 THEN e ELSE -e)
       ELSE LET first == CHOOSE i \in firing : \A j \in firing : i <= j
                rule == rule_log[first]
            IN IF rule.value_var = None
                 THEN Forces(A, IF rule.conclusion THEN e ELSE -e)
                 ELSE /\ Forces(A \cup {rule.value_var}, e)
                      /\ Forces(A \cup {-rule.value_var}, -e)

\* C4: after init and any sequence of add_rule calls on e (premises
\* overlapping, empty or contradictory), under the assumptions fire(e), the
\* signed value(e) and the permanent assumptions, for every universal
\* assignment every model of the counterexample solver gives e the value of
\* the lowest-indexed rule whose premise is satisfied, and the trailing
\* default when none is; a later rule never overrides an earlier one.
C4_FirstMatch ==
  pc = "idle" =>
    \A e \in DOMAIN value_vars :
      \A u \in Assignments(universal_var_ids) : FirstMatch(e, u)

C4_Witness ==
  /\ pc = "idle"
  /\ \E i, j \in DOMAIN rule_log :
       /\ i < j
       /\ rule_log[i].e = rule_log[j].e
       /\ rule_log[i].value_var = None
       /\ rule_log[j].value_var = None
       /\ rule_log[i].conclusion # rule_log[j].conclusion
       /\ Len(rule_log[i].premise) = 2
       /\ rule_log[j].premise = <<>>
       /\ \E u \in Assignments(universal_var_ids) :
            {i, j} \subseteq Firing(rule_log[i].e, u)

\* C5: after set_default(e, v) on an initialised existential, whatever sign
\* value(e) had before the call, value(e) is the positive literal of the
\* current default value variable when v is True and its negative literal
\* when v is False.
C5_SetDefaultSign ==
  (pc = "returned" /\ called.op = "set_default_value" /\ called.exc = "")
    => value_vars[called.e] =
         IF called.flag THEN Abs(value_vars[called.e])
         ELSE -Abs(value_vars[called.e])

\* b lists the elements of a in some order
IsPermutation(a, b) ==
  /\ Len(a) = Len(b)
  /\ \A x \in Range(a) \cup Range(b) :
       Cardinality({i \in DOMAIN a : a[i] = x})
         = Cardinality({i \in DOMAIN b : b[i] = x})

\* no variable occurs in the list with both polarities
IsAssignment(a) == \A l \in Range(a) : -l \notin Range(a)

\* the get_expansion calls that created a variable, read off the rules:
\* got is the id every earlier call on e with a permutation of lits created
SamePermutationSameId(e, lits, got) ==
  \A i \in RulesOf(e) :
    (rule_log[i].value_var # None /\ IsPermutation(rule_log[i].premise, lits))
      => got = rule_log[i].value_var

\* C8 as stated: for every existential e and every list a of literals over
\* D(e), get_expansion(e, a') returns the same id for every permutation a'
\* of a, in whatever order the calls are made.
C8_PermutationSameId ==
  (pc = "returned" /\ called.op = "get_expansion_variable" /\ called.exc = "")
    => SamePermutationSameId(called.e, called.lits, called.ret)

\* C8 amended: the same for every list a over D(e) in which no variable
\* occurs with both polarities.
C8_PermutationSameIdOfAssignments ==
  (/\ pc = "returned" /\ called.op = "get_expansion_variable"
   /\ called.exc = "" /\ IsAssignment(called.lits))
    => SamePermutationSameId(called.e, called.lits, called.ret)

C8_Witness ==
  /\ pc = "returned"
  /\ called.op = "get_expansion_variable"
  /\ called.exc = ""
  /\ IsAssignment(called.lits)
  /\ \E i \in RulesOf(called.e) :
       /\ rule_log[i].premise # called.lits
       /\ IsPermutation(rule_log[i].premise, called.lits)
       /\ rule_log[i].value_var = called.ret

\* the call that returned was a get_expansion whose key was interned before
SecondCall ==
  /\ pc = "returned"
  /\ called.op = "get_expansion_variable"
  /\ called.exc = ""
  /\ <<called.e, SortedByAbs(called.lits)>> \in DOMAIN called.before.expansion_vars

\* C9: a second call get_expansion(e, a) with a key that is already interned
\* returns the id of the first call and changes nothing: no id is allocated,
\* no clause added to either solver, no rule added, and fire(e), nofired(e),
\* value(e) and the registry are as before.
C9_SecondCallChangesNothing ==
  SecondCall =>
    /\ called.ret
         = called.before.expansion_vars[<<called.e, SortedByAbs(called.lits)>>]
    /\ \E i \in DOMAIN called.before.rule_log :
         /\ called.before.rule_log[i].value_var = called.ret
         /\ called.before.rule_log[i].e = called.e
    /\ Self = called.before

C9_Witness ==
  /\ SecondCall
  /\ Len(called.lits) = 2
  /\ Len(rule_log) = 2
  /\ value_vars[called.e] < 0

\* the solver's clauses make the variables a and b equal
Equivalent(a, b) ==
  /\ ~Sat(counterexample_solver, {a, -b})
  /\ ~Sat(counterexample_solver, {-a, b})
  /\ Sat(counterexample_solver, {a, b})
  /\ Sat(counterexample_solver, {-a, -b})

\* C10: in every reachable state each expansion variable x registered for
\* key (e, a) has exactly one rule in e's decision list whose premise is the
\* conjunction of the literals of a and whose value variable is constrained
\* equivalent to x; distinct keys have distinct ids; and exp_id_set is the
\* set of ids in the registry.
C10_RegistryMatchesRules ==
  /\ \A key \in DOMAIN expansion_vars :
       Cardinality({i \in RulesOf(key[1]) :
                      /\ IsPermutation(rule_log[i].premise, key[2])
                      /\ Equivalent(rule_log[i].value, expansion_vars[key])})
         = 1
  /\ \A k1, k2 \in DOMAIN expansion_vars :
       k1 # k2 => expansion_vars[k1] # expansion_vars[k2]
  /\ expansion_vars_set = {expansion_vars[k] : k \in DOMAIN expansion_vars}

C10_Witness ==
  /\ pc = "returned"
  /\ called.op = "get_expansion_variable"
  /\ Cardinality(DOMAIN expansion_vars) = 2
  /\ Cardinality(DOMAIN called.before.expansion_vars) = 1
  /\ \E k1, k2 \in DOMAIN expansion_vars :
       k1 # k2 /\ k1[1] = k2[1] /\ IsPermutation(k1[2], k2[2])

\* ------------------------------------------------------------ fresh ids
\* the ids the solver has handed out and still records: the three logs of
\* the decision lists and the expansion registry
AllocatedIds(s) ==
  {s.all_value_vars[i].id : i \in DOMAIN s.all_value_vars}
    \cup {s.all_no_rule_fired_vars[i].id : i \in DOMAIN s.all_no_rule_fired_vars}
    \cup {s.all_rule_fire_vars[i].id : i \in DOMAIN s.all_rule_fire_vars}
    \cup {s.expansion_vars[k] : k \in DOMAIN s.expansion_vars}

\* the ids of the original variables: name_to_id and the matrix
OriginalIds ==
  name_to_id_values
    \cup {Abs(l) : l \in UNION {Range(c) : c \in Range(MatrixOf(inst))}}

\* the activation variables of the pair queries of the call that returned
ActivationsOfCall ==
  [i \in DOMAIN called.aux |-> called.aux[i].assumption_variable]

\* C11: with the counter computed by the constructor, every allocated id is
\* greater than every id of name_to_id and of the matrix, no two auxiliaries
\* share an id, and every id an operation allocates (value, nofired, fire,
\* expansion and equivalence-activation variables) is greater than every id
\* allocated before it.
C11_FreshIds ==
  \E original \in {OriginalIds} :
  \E now \in {AllocatedIds(Self)} :
    /\ \A a \in now :
         /\ a <= counter
         /\ \A o \in original : a > o
    /\ Cardinality(now)
         = Len(all_value_vars) + Len(all_no_rule_fired_vars)
             + Len(all_rule_fire_vars) + Cardinality(DOMAIN expansion_vars)
    /\ pc = "returned" =>
         \E activations \in {ActivationsOfCall} :
           /\ counter >= called.before.counter
           /\ \A a \in now \ AllocatedIds(called.before) :
                a > called.before.counter
           /\ \A i \in DOMAIN activations :
                /\ activations[i] > called.before.counter
                /\ activations[i] <= counter
                /\ \A o \in original : activations[i] > o
                /\ \A j \in DOMAIN activations :
                     j < i => activations[j] < activations[i]

\* an expansion variable was allocated after a detection had allocated
\* activation variables
C11_Witness ==
  /\ pc = "returned"
  /\ called.op = "get_expansion_variable"
  /\ called.exc = ""
  /\ AllocatedIds(Self) # AllocatedIds(called.before)
  /\ ActivationIds(Self) > 0

\* ------------------------------------------- claims about the detector
\* detect_equivalent_existentials has returned
Detected == pc = "returned" /\ called.op = "detect_equivalent_existentials"

\* e1 and e2 are members of one list of the returned map
SameClass(classes, e1, e2) ==
  \E root \in DOMAIN classes :
    e1 \in Range(classes[root]) /\ e2 \in Range(classes[root])

\* some assignment satisfies the matrix with g* true (a row on which the
\* body holds) and gives e1 and e2 different values
CanDiffer(e1, e2) == \E r \in inst.body : (e1 \in r) # (e2 \in r)

SameDependencyLists ==
  \A e1, e2 \in Range(existential_var_ids) :
    dependencies_by_id_list(e1) = dependencies_by_id_list(e2)

\* C12: when all existentials have the same ordered dependency list, the
\* returned map has e1 and e2 in the same class if and only if no assignment
\* that satisfies the matrix with g* true gives e1 and e2 different values.
C12_SameClassIffNeverDiffer ==
  (Detected /\ SameDependencyLists) =>
    \A e1, e2 \in Range(existential_var_ids) :
      SameClass(called.ret, e1, e2) <=> ~CanDiffer(e1, e2)

\* three existentials: two that never differ in one class, and a third that
\* can differ from both in a class of its own
C12_Witness ==
  /\ Detected
  /\ SameDependencyLists
  /\ \E e1, e2, e3 \in Range(existential_var_ids) :
       /\ e1 # e2
       /\ SameClass(called.ret, e1, e2)
       /\ ~CanDiffer(e1, e2)
       /\ ~SameClass(called.ret, e1, e3)
       /\ CanDiffer(e1, e3)
       /\ CanDiffer(e2, e3)

\* C13: two existentials are members of the same class only if their
\* dependency lists hold the same universals in the same order.
C13_SameClassOnlyWithSameDependencies ==
  Detected =>
    \A e1, e2 \in Range(existential_var_ids) :
      SameClass(called.ret, e1, e2) =>
        /\ dependencies_by_id(e1) = dependencies_by_id(e2)
        /\ dependencies_by_id_list(e1) = dependencies_by_id_list(e2)

\* the pairs whose query returned UNSAT
UnsatPairs ==
  {{called.aux[i].var1_id, called.aux[i].var2_id} :
     i \in {j \in DOMAIN called.aux : ~called.aux[j].result}}

\* the existentials a chain of UNSAT queries connects to the ones in S
RECURSIVE ChainFrom(_)
ChainFrom(S) ==
  LET more == S \cup UNION {p \in UnsatPairs : p \cap S # {}}
  IN IF more = S THEN S ELSE ChainFrom(more)

\* C14: the returned map is a partition of the existential ids: the lists
\* have no repetition, every existential is in exactly one of them, each key
\* is a member of its own list, and two existentials share a list exactly
\* when a chain of pair queries that returned UNSAT connects them.
C14_ClassesArePartition ==
  Detected =>
    /\ \A root \in DOMAIN called.ret :
         /\ root \in Range(called.ret[root])
         /\ Range(called.ret[root]) \subseteq Range(existential_var_ids)
         /\ Cardinality(Range(called.ret[root])) = Len(called.ret[root])
    /\ \A e \in Range(existential_var_ids) :
         Cardinality({root \in DOMAIN called.ret :
                        e \in Range(called.ret[root])}) = 1
    /\ \A e1, e2 \in Range(existential_var_ids) :
         SameClass(called.ret, e1, e2) <=> e2 \in ChainFrom({e1})

\* three existentials in one class by two UNSAT queries; the third pair was
\* skipped because the chain already connected it
C14_Witness ==
  /\ Detected
  /\ Len(existential_var_ids) = 3
  /\ Cardinality(DOMAIN called.ret) = 1
  /\ Len(called.aux) = 2
  /\ Cardinality(UnsatPairs) = 2

\* --------------------------------------------------- refused operations
\* the operation op has returned or raised
Done(op) == pc = "returned" /\ called.op = op

\* C15: get_expansion_variable called with an id that is not an existential,
\* or with a literal whose variable is not in the dependency set of the
\* existential, raises ValueError and leaves every field as it was.
C15_GetExpansionRefused ==
  (/\ Done("get_expansion_variable")
   /\ \/ ~IsExistential(called.e)
      \/ \E l \in Range(called.lits) : Abs(l) \notin dependencies_by_id(called.e))
    => (called.exc = "ValueError" /\ Self = called.before)

\* a literal outside D(e) was refused for an existential that already has an
\* expansion variable
C15_Witness ==
  /\ Done("get_expansion_variable")
  /\ IsExistential(called.e)
  /\ \E l \in Range(called.lits) : Abs(l) \notin dependencies_by_id(called.e)
  /\ called.exc = "ValueError"
  /\ \E key \in DOMAIN expansion_vars : key[1] = called.e

\* C16: set_default_value and add_rule called for an id without an initialised
\* decision list, and init_model called for an id that is not an existential,
\* raise ValueError and leave every field as it was.
C16_UninitialisedRefused ==
  (\/ /\ Done("set_default_value") \/ Done("add_rule")
      /\ called.e \notin DOMAIN called.before.value_vars
   \/ /\ Done("init_model")
      /\ ~IsExistential(called.e))
    => (called.exc = "ValueError" /\ Self = called.before)

\* add_rule was refused in a state that already has rules
C16_Witness ==
  /\ Done("add_rule")
  /\ called.e \notin DOMAIN value_vars
  /\ called.exc = "ValueError"
  /\ rule_log # <<>>

\* C17: init_model called for an existential that is already initialised
\* returns without an error and leaves every field as it was.
C17_InitTwiceChangesNothing ==
  (/\ Done("init_model")
   /\ IsExistential(called.e)
   /\ called.e \in DOMAIN called.before.value_vars)
    => (called.exc = "" /\ Self = called.before)

\* init_model on an existential that has a rule and a flipped default
C17_Witness ==
  /\ Done("init_model")
  /\ IsExistential(called.e)
  /\ called.exc = ""
  /\ value_vars[called.e] < 0
  /\ \E i \in DOMAIN rule_log : rule_log[i].e = called.e

\* ------------------------------------------------ claims about solve()
\* the registry keys of existential e
KeysOf(e) == {key \in DOMAIN expansion_vars : key[1] = e}

\* the expansion variables created for e: each creation adds one rule that
\* carries the new variable
CreatedFor(e) ==
  {i \in DOMAIN rule_log : rule_log[i].e = e /\ rule_log[i].value_var # None}

\* the total assignments to D(e): one literal per dependency
IsTotalAssignment(e, a) ==
  /\ Len(a) = Cardinality(dependencies_by_id(e))
  /\ {Abs(l) : l \in Range(a)} = dependencies_by_id(e)

RECURSIVE SumOfExpansions(_)
SumOfExpansions(E) ==
  IF E = {} THEN 0
  ELSE LET e == CHOOSE x \in E : TRUE
       IN 2 ^ Cardinality(dependencies_by_id(e)) + SumOfExpansions(E \ {e})

\* C18: during solve() every registry key of e is a total assignment to
\* D(e), the number of expansion variables created for e is the number of
\* its keys and at most 2^|D(e)|, and the number of all expansion variables
\* is at most the sum of 2^|D(e)| over the existentials.
C18_ExpansionsBounded ==
  /\ \A e \in Range(existential_var_ids) :
       /\ \A key \in KeysOf(e) : IsTotalAssignment(e, key[2])
       /\ Cardinality(CreatedFor(e)) = Cardinality(KeysOf(e))
       /\ Cardinality(CreatedFor(e)) <= 2 ^ Cardinality(dependencies_by_id(e))
  /\ Cardinality(expansion_vars_set)
       <= SumOfExpansions(Range(existential_var_ids))
  /\ Len(rule_log) = Cardinality(expansion_vars_set)

\* an existential with two dependencies has all four expansion variables, and
\* the loop has asked for one of them again
C18_Witness ==
  /\ \E e \in Range(existential_var_ids) :
       /\ Cardinality(dependencies_by_id(e)) = 2
       /\ Cardinality(CreatedFor(e)) = 4
  /\ iteration > 4

\* ------------------------------------------------------- model functions
\* the assumptions of compute_model_functions without the values of the
\* expansion variables
model_function_assumptions_no_expansion(universal_literals) ==
  Range(permanent_assumptions)
    \cup {rule_fire_vars[e] : e \in DOMAIN rule_fire_vars}
    \cup {value_vars[e] : e \in DOMAIN value_vars}
    \cup Range(universal_literals)

\* permanent assumptions, rule fire vars, current value vars, the universal
\* assignment, and for every existential the value of the expansion variable
\* registered for this assignment of its dependencies
model_function_assumptions(universal_literals) ==
  Range(permanent_assumptions)
    \cup {rule_fire_vars[e] : e \in DOMAIN rule_fire_vars}
    \cup {value_vars[e] : e \in DOMAIN value_vars}
    \cup Range(universal_literals)
    \cup {lit \in expansion_variable_assignment :
            \E exist_id \in Range(existential_var_ids) :
              LET key == <<exist_id,
                           SortedByAbs(dependency_assignment(exist_id,
                                                             universal_literals))>>
              IN /\ key \in DOMAIN expansion_vars
                 /\ Abs(lit) = expansion_vars[key]}

\* compute_model_functions: the lists of existential literals it may return
\* (one per model the SAT service may give); none when it returns None
compute_model_functions(universal_literals) ==
  {ByVariable(m) :
     m \in Models(counterexample_solver,
                  model_function_assumptions(universal_literals),
                  Range(existential_var_ids))}

\* forall u exists e(u): u <-> e, with u = 1, e = 2
Identity == Catalogue(26)

exp_u_true == <<2, <<1>> >>
exp_u_false == <<2, <<-1>> >>

\* what holds of every state of solve() on the formula
IdentityRun ==
  /\ pc \notin {"UNSAT", "exit", "AssertionError"}
  /\ DOMAIN expansion_vars \subseteq {exp_u_true, exp_u_false}
  /\ (iteration > 2 \/ (iteration = 2 /\ pc # "analyze")) =>
       DOMAIN expansion_vars = {exp_u_true, exp_u_false}
  /\ pc = "SAT" =>
       /\ DOMAIN expansion_vars = {exp_u_true, exp_u_false}
       /\ Cardinality(expansion_vars_set) = 2
       /\ expansion_variable_assignment
            = {expansion_vars[exp_u_true], -expansion_vars[exp_u_false]}
       /\ compute_model_functions(<<1>>) = {<<2>>}
       /\ compute_model_functions(<<-1>>) = {<<-2>>}

\* C20: on forall u exists e(u): u <-> e, solve() returns SAT; at that point
\* exactly two expansion variables exist, for u true and for u false, both
\* created by the end of the second iteration; the last expansion assignment
\* has the first true and the second false; and compute_model_functions
\* yields e true for u true and e false for u false.
C20_IdentityIsSat ==
  /\ [](inst = Identity => IdentityRun)
  /\ (inst = Identity) ~> (pc = "SAT")

C20_Witness ==
  /\ inst = Identity
  /\ pc = "SAT"
  /\ iteration = 3
  /\ compute_model_functions(<<1>>) = {<<2>>}

\* ------------------------------------------------- the Henkin instance
\* forall u1 u2 exists e1(u1) e2(u2): (e1 <-> u1) /\ (e2 <-> u2) /\ (e1 \/ e2),
\* with u1 = 1, u2 = 2, e1 = 3, e2 = 4
Henkin ==
  [nu |-> 2, ne |-> 2, deps |-> << <<1>>, <<2>> >>,
   body |-> {{1, 3}, {2, 4}, {1, 2, 3, 4}}]

\* solve() on the Henkin instance, followed until iteration MaxIterations has
\* its counterexample

HenkinInit ==
  /\ ConstructedOn({Henkin})
  /\ pc = "search"
  /\ called = NoCall

HenkinNext ==
  \/ iteration < MaxIterations /\ Search
  \/ iteration < MaxIterations /\ Analyze
  \/ iteration < MaxIterations /\ Expand

HenkinSpec == HenkinInit /\ [][HenkinNext]_vars

Contradiction == Catalogue(36)

\* what holds of every state of solve() on the formula
ContradictionRun ==
  /\ pc \notin {"SAT", "exit", "AssertionError"}
  /\ iteration <= 2
  /\ DOMAIN expansion_vars \subseteq {<<1, <<>> >>}

\* C21: on exists e: e /\ ~e, solve() returns UNSAT, in its first or second
\* iteration, whichever core the verification query yields (the empty
\* existential core included, which gives the empty blocking clause).
C21_ContradictionIsUnsat ==
  /\ [](inst = Contradiction => ContradictionRun)
  /\ (inst = Contradiction) ~> (pc = "UNSAT")

\* UNSAT in the first iteration by the empty blocking clause
C21_Witness ==
  /\ inst = Contradiction
  /\ pc = "UNSAT"
  /\ iteration = 1
  /\ expansion_solver = << <<>> >>
  /\ expansion_vars = <<>>

\* exists e1 e2: ~e1 \/ e2, with e1 = 1, e2 = 2 and g* = 3
Implication == Catalogue(35)

\* what holds of every state of solve() on the formula
ImplicationRun ==
  /\ pc \notin {"UNSAT", "exit", "AssertionError", "analyze", "expand"}
  /\ iteration <= 1
  /\ expansion_vars = <<>>
  /\ expansion_vars_set = {}
  /\ expansion_solver = <<>>
  /\ rule_log = <<>>
  /\ pc = "SAT" =>
       /\ compute_model_functions(<<>>) # {}
       /\ compute_model_functions(<<>>) \subseteq {<<1, 2>>, <<-1, 2>>}
       /\ CandidateValues({}) \in {{1, 2}, {-1, 2}}

\* C22: on exists e1 e2: ~e1 \/ e2, solve() returns SAT in its first
\* iteration, having created no expansion variable and added no blocking
\* clause; the model functions are e1 = true, e2 = true or e1 = false,
\* e2 = true.
C22_ImplicationIsSat ==
  /\ [](inst = Implication => ImplicationRun)
  /\ (inst = Implication) ~> (pc = "SAT")

\* SAT with the initial defaults: both existentials true
C22_Witness ==
  /\ inst = Implication
  /\ pc = "SAT"
  /\ iteration = 1
  /\ compute_model_functions(<<>>) = {<<1, 2>>}

\* ------------------------------------------------ the command-line wrapper
\* _enumerate_and_compute_model_functions: for every assignment to the
\* universals compute_model_functions returns a list that Python takes for
\* true (a list that is not empty); it may return any of the lists
\* compute_model_functions may return
enumeration_valid ==
  \A u \in Assignments(universal_var_ids) :
    \E result \in compute_model_functions(ByVariable(u)) : result # <<>>

\* how solve() ends at the terminal position pc: it returns a value, or an
\* exception leaves it (sys.exit raises SystemExit with the code)
Returns(value) == [kind |-> "return", value |-> value, exc |-> "", code |-> None]
Raises(exc, code) == [kind |-> "raise", value |-> FALSE, exc |-> exc, code |-> code]

solve_end(verbose) ==
  CASE pc = "SAT" ->
         IF verbose /\ ~enumeration_valid
           THEN Raises("SystemExit", 1)
           ELSE Returns(TRUE)
    [] pc = "UNSAT" -> Returns(FALSE)
    [] pc = "exit" -> Raises("SystemExit", 1)
    [] pc = "AssertionError" -> Raises("AssertionError", None)
    [] OTHER -> Raises(pc, None)

\* what leaves the body of main's try: sys.exit(10) or sys.exit(20) after a
\* return, else the exception of solve()
try_body(end) ==
  IF end.kind = "return"
    THEN Raises("SystemExit", IF end.value THEN 10 ELSE 20)
    ELSE end

\* SystemExit and KeyboardInterrupt derive from BaseException, not Exception
all_caught(exc) == TRUE

\* except NotImplementedError / except KeyboardInterrupt / except Exception
caught(exc) == exc # "SystemExit"

\* the exit code of the process
exit_code(end) ==
  LET raised == try_body(end)
  IN IF caught(raised.exc) THEN 1 ELSE raised.code

\* the exceptions the environment may raise inside solve()
Faults == {"KeyboardInterrupt", "MemoryError"}

Fault ==
  /\ pc \in {"search", "analyze", "expand"}
  /\ pc' \in Faults
  /\ UNCHANGED <<inst, existential_var_ids, counter, id_to_name, value_vars,
                 no_rule_fired_vars, rule_fire_vars, all_rule_fire_vars,
                 all_no_rule_fired_vars, all_value_vars, permanent_assumptions,
                 expansion_vars, expansion_vars_set,
                 expansion_variable_assignment, counterexample_solver,
                 expansion_solver, last_counterexample_existentials,
                 last_counterexample_universals, iteration, counterexample,
                 rule_log, seen, called>>

\* the process ends: called keeps how solve() ended and the exit code
MainExit ==
  /\ pc \in {"SAT", "UNSAT", "exit", "AssertionError"} \cup Faults
  /\ \E verbose \in BOOLEAN :
       \E end \in {solve_end(verbose)} :
         called' = [op |-> "main", e |-> None, lits |-> <<>>,
                    flag |-> verbose, ret |-> exit_code(end), exc |-> end.exc,
                    end |-> end]
  /\ pc' = "exited"
  /\ UNCHANGED <<inst, existential_var_ids, counter, id_to_name, value_vars,
                 no_rule_fired_vars, rule_fire_vars, all_rule_fire_vars,
                 all_no_rule_fired_vars, all_value_vars, permanent_assumptions,
                 expansion_vars, expansion_vars_set,
                 expansion_variable_assignment, counterexample_solver,
                 expansion_solver, last_counterexample_existentials,
                 last_counterexample_universals, iteration, counterexample,
                 rule_log, seen>>

MainNext == Search \/ Analyze \/ Expand \/ Fault \/ MainExit

MainSpec == SolveInit /\ [][MainNext]_vars

\* C23: the process exits with code 10 exactly when solve() returned True
\* and with code 20 exactly when it returned False; when an exception left
\* solve() (the stall exit, the failed assertion, a failed enumeration, an
\* exception of the environment) the code is neither 10 nor 20.
C23_ExitCodes ==
  pc = "exited" =>
    /\ called.ret = 10 <=> (called.end.kind = "return" /\ called.end.value)
    /\ called.ret = 20 <=> (called.end.kind = "return" /\ ~called.end.value)
    /\ called.end.kind = "raise" => called.ret \notin {10, 20}

\* solve() returned True in verbose mode after rules were installed
C23_Witness ==
  /\ pc = "exited"
  /\ called.flag
  /\ called.ret = 10
  /\ called.end.kind = "return"
  /\ rule_log # <<>>

\* --------------------------------------------- claims about the refinement
\* analyze_counterexample has just run on the counterexample of this iteration
Analyzed == pc = "expand"

\* C24: after analyze_counterexample has processed the core literal l of
\* existential e, the trailing default of e (the sign of value(e)) is opposite
\* to l: false when l > 0 and true when l < 0.
C24_DefaultOpposesCore ==
  Analyzed =>
    \A l \in Range(counterexample.existential_core) :
      /\ l > 0 => value_vars[Abs(l)] < 0
      /\ l < 0 => value_vars[Abs(l)] > 0

\* the registry key of existential e under the universal assignment of the
\* counterexample: the literals over D(e), by variable
KeyUnder(e, universal_assignment) ==
  <<e, ByVariable({u \in Range(universal_assignment) :
                     Abs(u) \in dependencies_by_id(e)})>>

\* the clauses add_rule puts into the counterexample solver for a rule with
\* this premise that carries an expansion variable
RuleSize(premise) == (Len(premise) + 1) + 3 + 2 + 2

RECURSIVE SizeOfRules(_)
SizeOfRules(keys) ==
  IF keys = {} THEN 0
  ELSE LET k == CHOOSE x \in keys : TRUE
       IN RuleSize(k[2]) + SizeOfRules(keys \ {k})

\* what a step of analyze_counterexample does to the two solvers
AnalyzeAddsOneClause ==
  LET core == counterexample.existential_core
      B == expansion_solver'[Len(expansion_solver')]
      created == DOMAIN expansion_vars' \ DOMAIN expansion_vars
  IN /\ Len(expansion_solver') = Len(expansion_solver) + 1
     /\ SubSeq(expansion_solver', 1, Len(expansion_solver)) = expansion_solver
     /\ Len(B) = Len(core)
     /\ \A i \in DOMAIN core :
          LET key == KeyUnder(Abs(core[i]), counterexample.universal_assignment)
          IN /\ key \in DOMAIN expansion_vars'
             /\ B[i] = IF core[i] > 0 THEN -expansion_vars'[key]
                                      ELSE expansion_vars'[key]
     /\ created \subseteq
          {KeyUnder(Abs(core[i]), counterexample.universal_assignment) :
             i \in DOMAIN core}
     /\ SubSeq(counterexample_solver', 1, Len(counterexample_solver))
          = counterexample_solver
     /\ Len(counterexample_solver')
          = Len(counterexample_solver) + SizeOfRules(created)
     /\ Len(rule_log') = Len(rule_log) + Cardinality(created)

\* C25: analyze_counterexample appends exactly one clause B to the expansion
\* solver; B has one literal per literal l of the existential core, in order:
\* -x when l > 0 and x when l < 0, x the expansion variable of |l| under the
\* universal assignment restricted to D(|l|) (the empty clause for the empty
\* core); the counterexample solver gets the clauses of the rules of the
\* newly created expansion variables and no other.
C25_OneBlockingClause ==
  [][pc = "analyze" => AnalyzeAddsOneClause]_vars

\* a clause of two literals, one for a positive and one for a negative core
\* literal, one of them over an expansion variable that existed before
C25_Witness ==
  /\ pc = "expand"
  /\ Len(counterexample.existential_core) = 2
  /\ \E i, j \in DOMAIN counterexample.existential_core :
       counterexample.existential_core[i] > 0
         /\ counterexample.existential_core[j] < 0
  /\ Len(rule_log) < 2 * iteration
  /\ expansion_solver[Len(expansion_solver)] # <<>>

\* the blocking clause of the refinement being made, as a set of literals
NewBlockingClause == Range(expansion_solver'[Len(expansion_solver')])

\* what the blocking clause of a step of analyze_counterexample is to the
\* expansion assignment assumed in the search before it
AnalyzeBlocksAssignment ==
  LET B == NewBlockingClause
  IN /\ \A l \in B :
          Abs(l) \in expansion_vars_set => -l \in expansion_variable_assignment
     /\ \/ expansion_vars_set' # expansion_vars_set
        \/ ~Sat(expansion_solver', expansion_variable_assignment)
     /\ Sat(expansion_solver, {-l : l \in B})

\* C26: the blocking clause of a refinement is falsified by the expansion
\* assignment assumed in the search that produced the counterexample, on
\* every variable of the clause that existed before the refinement; so the
\* refinement creates an expansion variable or excludes the assignment just
\* used, and the clauses already in the expansion solver do not imply the
\* new one.
C26_BlockingClauseIsNew ==
  [][pc = "analyze" => AnalyzeBlocksAssignment]_vars

\* a refinement that created no expansion variable: every variable of its
\* clause stands in an earlier blocking clause
C26_Witness ==
  /\ pc = "expand"
  /\ Len(expansion_solver) >= 2
  /\ expansion_solver[Len(expansion_solver)] # <<>>
  /\ \A l \in Range(expansion_solver[Len(expansion_solver)]) :
       \E i \in 1..(Len(expansion_solver) - 1) :
         \E k \in Range(expansion_solver[i]) : Abs(k) = Abs(l)
  /\ ~Sat(expansion_solver, expansion_variable_assignment)

\* the refinements made so far: one blocking clause each
Refinements == Len(expansion_solver)

\* C27: when a counterexample search starts after a refinement,
\* expansion_variable_assignment has exactly one literal for each id of
\* exp_id_set and none for another variable, and it satisfies every blocking
\* clause added so far; before the first refinement it is empty.
C27_AssignmentCoversExpansionVariables ==
  pc = "search" =>
    IF Refinements = 0
      THEN expansion_variable_assignment = {}
      ELSE /\ {Abs(l) : l \in expansion_variable_assignment} = expansion_vars_set
           /\ Consistent(expansion_variable_assignment)
           /\ \A i \in DOMAIN expansion_solver :
                Range(expansion_solver[i]) \cap expansion_variable_assignment # {}

\* a search after three refinements over three expansion variables, one of
\* them not in the latest blocking clause, some assumed true and some false
C27_Witness ==
  /\ pc = "search"
  /\ Refinements = 3
  /\ Cardinality(expansion_vars_set) = 3
  /\ Cardinality(expansion_variable_assignment) = 3
  /\ \E x \in expansion_vars_set :
       \A l \in Range(expansion_solver[Refinements]) : Abs(l) # x
  /\ \E l, k \in expansion_variable_assignment : l > 0 /\ k < 0

\* get_counterexample has just returned (True, counterexample)
CounterexampleReturned == pc \in {"analyze", "exit"}

\* X, the universal assignment of the counterexample and g* are
\* unsatisfiable with the matrix
Refutes(X) ==
  ~Sat(MatrixOf(inst),
       X \cup Range(counterexample.universal_assignment) \cup {output_gate_id})

\* C28 as stated: the existential core returned by get_counterexample is
\* minimal, that is, no proper subset of it is unsatisfiable with the
\* matrix, the returned universal assignment and g*.
C28_CoreIsMinimal ==
  CounterexampleReturned =>
    \A X \in SUBSET Range(counterexample.existential_core) :
      X # Range(counterexample.existential_core) => ~Refutes(X)

\* C28 amended: the existential core returned by get_counterexample is
\* sufficient: with the returned universal assignment and g* it is
\* unsatisfiable with the matrix (it is what core() returned, filtered to the
\* existentials, and a proper subset of it may be sufficient too).
C28_CoreIsSufficient ==
  CounterexampleReturned => Refutes(Range(counterexample.existential_core))

\* a returned core of two literals one of which can be dropped, though not
\* both
C28_Witness ==
  /\ pc = "analyze"
  /\ Len(counterexample.existential_core) = 2
  /\ \E l \in Range(counterexample.existential_core) : Refutes({l})
  /\ ~Refutes({})

\* C29: when get_counterexample returns (True, (exist_core,
\* universal_assignment)), universal_assignment has exactly one literal for
\* each universal id, exist_core has literals of existential ids only, both
\* are part of one model of the search of step 1, and the matrix with
\* universal_assignment, exist_core and g* is unsatisfiable.
C29_CounterexampleShape ==
  CounterexampleReturned =>
    LET universal_assignment == counterexample.universal_assignment
        exist_core == counterexample.existential_core
    IN /\ Len(universal_assignment) = Cardinality(universal_var_ids)
       /\ {Abs(l) : l \in Range(universal_assignment)} = universal_var_ids
       /\ \A l \in Range(exist_core) : IsExistential(Abs(l))
       /\ Len(exist_core) = Cardinality(Range(exist_core))
       /\ Sat(counterexample_solver,
              assumptions_step1 \cup Range(universal_assignment)
                \cup Range(exist_core))
       /\ ~Sat(MatrixOf(inst),
               Range(universal_assignment) \cup Range(exist_core)
                 \cup {output_gate_id})

\* a counterexample of a later iteration over two universals, one assigned
\* true and one false, with a core that is not empty
C29_Witness ==
  /\ pc = "analyze"
  /\ iteration >= 2
  /\ \E l, k \in Range(counterexample.universal_assignment) : l > 0 /\ k < 0
  /\ counterexample.existential_core # <<>>

\* the rule that a step of analyze_counterexample installed for core literal
\* l, when the step created the expansion variable of l: it kept the slot
\* that was the default before the step as its own value, and the flip went
\* to the trailing default slot allocated after it
InstalledBeforeFlip(l) ==
  LET e == Abs(l)
      key == KeyUnder(e, counterexample.universal_assignment)
  IN key \notin DOMAIN expansion_vars =>
       /\ key \in DOMAIN expansion_vars'
       /\ \E i \in DOMAIN rule_log' :
            /\ i > Len(rule_log)
            /\ rule_log'[i].e = e
            /\ rule_log'[i].value_var = expansion_vars'[key]
            /\ rule_log'[i].value = Abs(value_vars[e])
            /\ Abs(value_vars'[e]) > rule_log'[i].value
       /\ (l > 0 => value_vars'[e] < 0)
       /\ (l < 0 => value_vars'[e] > 0)

\* the order of the statements of one iteration of solve()
IterationOrder ==
  /\ pc = "search" =>
       /\ Refinements = iteration
       /\ pc' \in {"analyze", "SAT", "exit", "AssertionError"}
       /\ UNCHANGED <<expansion_solver, expansion_variable_assignment,
                      counterexample_solver, rule_log>>
  /\ pc = "analyze" =>
       /\ pc' = "expand"
       /\ Len(expansion_solver') = iteration
       /\ \A l \in Range(counterexample.existential_core) :
            InstalledBeforeFlip(l)
       /\ UNCHANGED expansion_variable_assignment
  /\ pc = "expand" =>
       /\ pc' \in {"search", "UNSAT"}
       /\ Refinements = iteration
       /\ UNCHANGED <<expansion_solver, counterexample_solver, rule_log,
                      expansion_vars, value_vars>>
       /\ pc' = "search" =>
            /\ Sat(expansion_solver, expansion_variable_assignment')
            /\ {Abs(x) : x \in expansion_variable_assignment'}
                 = expansion_vars_set
       /\ pc' = "UNSAT" => ~Sat(expansion_solver, {})

\* C30: in every iteration of solve() the rule installations and the
\* blocking clause of the iteration are complete when the expansion solver
\* is queried, the expansion model is stored when the next counterexample
\* search starts, and for each core literal the rule is installed
\* (get_expansion_variable) before the default is flipped
\* (set_default_value), so the flip lands on the trailing default slot.
C30_IterationOrder ==
  [][IterationOrder]_vars

\* the third search starts: two iterations are complete, each with a rule
\* installed and a default flipped to false, and the model of the second
\* expansion query is stored
C30_Witness ==
  /\ pc = "search"
  /\ iteration = 2
  /\ Refinements = 2
  /\ Len(rule_log) >= 2
  /\ \E e \in DOMAIN value_vars : value_vars[e] < 0
  /\ Cardinality(expansion_variable_assignment) >= 2

\* ------------------------------------------------------- frame conditions
\* the operation op has returned without an error
Succeeded(op) == Done(op) /\ called.exc = ""

\* the handles of every existential other than e are as they were before the
\* call
OthersKept(e) ==
  /\ DOMAIN value_vars = DOMAIN called.before.value_vars
  /\ \A f \in DOMAIN value_vars \ {e} :
       /\ value_vars[f] = called.before.value_vars[f]
       /\ no_rule_fired_vars[f] = called.before.no_rule_fired_vars[f]
       /\ rule_fire_vars[f] = called.before.rule_fire_vars[f]

\* the call installed a rule
RuleInstalled == Len(rule_log) = Len(called.before.rule_log) + 1

\* the slot the installed rule took over: the magnitude of value(e) before
\* the call
TakenSlot == Abs(called.before.value_vars[called.e])

\* the clauses the call added to the counterexample solver
AddedClauses ==
  SubSeq(counterexample_solver, Len(called.before.counterexample_solver) + 1,
         Len(counterexample_solver))

\* C31: set_default_value(e, v) changes only the sign of value(e): no id, no
\* clause and no permanent assumption is added and every other field,
\* fire(e), nofired(e), the rules of e and the handles of the other
\* existentials included, stays as it was; add_rule and
\* get_expansion_variable on e leave value, nofired and fire of every other
\* existential as they were, and the rule they install takes the magnitude
\* of value(e), whatever sign set_default_value left on it.
C31_FrameOfDefaultAndRules ==
  /\ Succeeded("set_default_value") =>
       /\ Self = [called.before EXCEPT
                    !.value_vars[called.e] = value_vars[called.e]]
       /\ Abs(value_vars[called.e]) = TakenSlot
  /\ (Succeeded("add_rule") \/ Succeeded("get_expansion_variable")) =>
       OthersKept(called.e)
  /\ (Succeeded("add_rule") /\ RuleInstalled) =>
       /\ rule_log[Len(rule_log)].value = TakenSlot
       /\ permanent_assumptions
            = Append(called.before.permanent_assumptions,
                     IF called.flag THEN TakenSlot ELSE -TakenSlot)
  /\ (Succeeded("get_expansion_variable") /\ RuleInstalled) =>
       /\ rule_log[Len(rule_log)].value = TakenSlot
       /\ SubSeq(AddedClauses, Len(AddedClauses) - 1, Len(AddedClauses))
            = << <<-TakenSlot, called.ret>>, <<TakenSlot, -called.ret>> >>
       /\ permanent_assumptions = called.before.permanent_assumptions

\* a rule installed on an existential whose default set_default_value had
\* turned negative, with another existential initialised beside it
C31_Witness ==
  /\ Succeeded("get_expansion_variable")
  /\ RuleInstalled
  /\ called.before.value_vars[called.e] < 0
  /\ Cardinality(DOMAIN value_vars) >= 2

\* ------------------------------------------ the detector's shared solver
\* the answer of a pair query on a solver of its own: the matrix and the
\* clauses of that pair
FreshAnswer(assumption_variable, var1_id, var2_id) ==
  Sat(MatrixOf(inst)
        \o pair_clauses(assumption_variable, var1_id, var2_id,
                        dependencies_by_id_list(var1_id),
                        dependencies_by_id_list(var2_id)),
      {assumption_variable, output_gate_id})

\* the pairs of one group whose query on a solver of its own is UNSAT,
\* whether the loop asked it or skipped it
FreshUnsatPairs ==
  {{e1, e2} : <<e1, e2>> \in
     {p \in Range(existential_var_ids) \X Range(existential_var_ids) :
        /\ p[1] # p[2]
        /\ Len(dependencies_by_id_list(p[1]))
             = Len(dependencies_by_id_list(p[2]))
        /\ ~FreshAnswer(counter + 1, p[1], p[2])}}

RECURSIVE FreshChainFrom(_, _)
FreshChainFrom(S, pairs) ==
  LET more == S \cup UNION {p \in pairs : p \cap S # {}}
  IN IF more = S THEN S ELSE FreshChainFrom(more, pairs)

\* C32: every pair query of detect_equivalent_existentials, asked on the
\* shared detection solver that still holds the guarded clauses of the
\* pairs before it, has the answer the same query has on a solver holding
\* only the matrix and the clauses of that pair; so the classes are the ones
\* the separate queries give, whichever pairs were asked before.
C32_SharedSolverAnswersAsFresh ==
  Detected =>
    /\ \A i \in DOMAIN called.aux :
         called.aux[i].result
           = FreshAnswer(called.aux[i].assumption_variable,
                         called.aux[i].var1_id, called.aux[i].var2_id)
    /\ \E pairs \in {FreshUnsatPairs} :
         \A e1, e2 \in Range(existential_var_ids) :
           SameClass(called.ret, e1, e2) <=> e2 \in FreshChainFrom({e1}, pairs)

\* three queries on the shared solver: one answered SAT after an UNSAT one,
\* whose clauses the solver still holds
C32_Witness ==
  /\ Detected
  /\ Len(called.aux) = 3
  /\ ~called.aux[1].result
  /\ called.aux[2].result
  /\ called.aux[3].result

\* --------------------------------------------- solve() in verbose mode
\* every body over at most two universals and no existential
NoExistentials ==
  {[nu |-> n, ne |-> 0, deps |-> <<>>, body |-> b] :
     <<n, b>> \in UNION {{n} \X SUBSET {Row(j, n) : j \in 0..(2 ^ n - 1)} :
                           n \in 0..2}}

\* the instances of the catalogue and the ones without existentials
VerboseInit ==
  /\ ConstructedOn({Catalogue(i) : i \in 1..NumInstances} \cup NoExistentials)
  /\ pc = "search"
  /\ called = NoCall

VerboseNext == Search \/ Analyze \/ Expand \/ MainExit

VerboseSpec == VerboseInit /\ [][VerboseNext]_vars

\* C33: when solve() finds no counterexample, the enumeration of verbose
\* mode succeeds: for every total assignment to the universals (the empty
\* one when there are none) compute_model_functions yields outputs that are
\* taken as valid, also on an instance without existentials, so solve()
\* returns True and does not end the process.
C33_EnumerationSucceeds ==
  pc = "SAT" => (enumeration_valid /\ solve_end(TRUE) = Returns(TRUE))

\* the same on the instances that have an existential
EnumerationSucceedsWithExistentials ==
  (pc = "SAT" /\ existential_var_ids # <<>>) =>
    (enumeration_valid /\ solve_end(TRUE) = Returns(TRUE))

\* ------------------------------------------------------ the name registry
\* self.name_to_id: the table handed to the constructor, which no operation
\* writes
name_to_id ==
  [n \in {Name("var", v, v, <<>>) : v \in name_to_id_values} |-> n.idx]

\* the variable ids of a list of clauses
IdsOf(clauses) == {Abs(l) : l \in UNION {Range(c) : c \in Range(clauses)}}

\* the clauses the detection solver of the call that has just returned held
\* besides the matrix
DetectionClauses ==
  IF ~Detected THEN {}
  ELSE UNION {Range(pair_clauses(called.aux[i].assumption_variable,
                                 called.aux[i].var1_id, called.aux[i].var2_id,
                                 dependencies_by_id_list(called.aux[i].var1_id),
                                 dependencies_by_id_list(called.aux[i].var2_id))) :
                i \in DOMAIN called.aux}

\* the ids handed out after the constructor returned
CreatedLater == (max_id + 3 * Len(existential_var_ids) + 1)..counter

SolverIdsNamed ==
  IdsOf(counterexample_solver) \cup IdsOf(expansion_solver)
    \subseteq DOMAIN id_to_name

DetectionIdsNamed ==
  {Abs(l) : l \in UNION {Range(c) : c \in DetectionClauses}}
    \subseteq DOMAIN id_to_name

RegistryInverse ==
  /\ \A n \in DOMAIN name_to_id : 
       /\ name_to_id[n] \in DOMAIN id_to_name
       /\ id_to_name[name_to_id[n]] = n
  /\ \A id \in CreatedLater \cap DOMAIN id_to_name :
       /\ id_to_name[id] \in DOMAIN name_to_id
       /\ name_to_id[id_to_name[id]] = id

\* C34: in every reachable state every variable id in a clause of the
\* counterexample solver, the expansion solver or the detection solver has
\* an entry in id_to_name, and name_to_id and id_to_name are inverse of each
\* other, also over the auxiliaries created after construction.
C34_EveryIdNamed ==
  /\ SolverIdsNamed
  /\ DetectionIdsNamed
  /\ RegistryInverse

====
